---------------------------- MODULE Spec2Model ----------------------------
(***************************************************************************)
(* Foot contact detection of FootSyncMarkerGenerator: the three leaf       *)
(* detectors (PelvisCrossing, VelocityCurve, Saliency) and the composite   *)
(* fusion, as state machines over a detector instance, the animation it    *)
(* analyses and the settings singleton.                                    *)
(*                                                                         *)
(* Numbers.  The code computes in 32-bit floats.  The model computes in    *)
(* exact rationals <<n, d>> (d > 0, lowest terms), so every comparison     *)
(* and every division is the mathematical one and float rounding is not    *)
(* modelled.  Vector lengths are exact: the bone positions are drawn from  *)
(* a set whose pairwise distances are integers.                            *)
(***************************************************************************)
EXTENDS Integers, Sequences, FiniteSets, TLC

(***************************************************************************)
(* Exact rational arithmetic.                                              *)
(***************************************************************************)
Abs(i) == IF i < 0 THEN -i ELSE i

RECURSIVE GCD(_, _)
GCD(a, b) == IF b = 0 THEN a ELSE GCD(b, a % b)

Rat(n, d) ==
    LET g == GCD(Abs(n), Abs(d))
        s == IF d < 0 THEN -1 ELSE 1
    IN  <<(s * n) \div g, (s * d) \div g>>

R(i) == <<i, 1>>

\* Whether the products of the parts of x and y stay within TLC's integers
\* as they are; otherwise common factors are divided out first.
Small(x, y) ==
    /\ Abs(x[1]) <= 32767 /\ x[2] <= 32767
    /\ Abs(y[1]) <= 32767 /\ y[2] <= 32767

RAdd(x, y) ==
    IF Small(x, y) THEN Rat(x[1] * y[2] + y[1] * x[2], x[2] * y[2])
    ELSE LET g == GCD(x[2], y[2])
         IN  Rat(x[1] * (y[2] \div g) + y[1] * (x[2] \div g), (x[2] \div g) * y[2])
RSub(x, y) == RAdd(x, <<-y[1], y[2]>>)
RMul(x, y) ==
    IF Small(x, y) THEN Rat(x[1] * y[1], x[2] * y[2])
    ELSE LET g1 == GCD(Abs(x[1]), y[2])
             g2 == GCD(Abs(y[1]), x[2])
         IN  Rat((x[1] \div g1) * (y[1] \div g2), (x[2] \div g2) * (y[2] \div g1))
RDiv(x, y) == RMul(x, IF y[1] < 0 THEN <<-y[2], -y[1]>> ELSE <<y[2], y[1]>>)
RNeg(x) == <<-x[1], x[2]>>
RAbs(x) == <<Abs(x[1]), x[2]>>
RLt(x, y) ==
    IF Small(x, y) THEN x[1] * y[2] < y[1] * x[2]
    ELSE LET g == GCD(x[2], y[2])
         IN  x[1] * (y[2] \div g) < y[1] * (x[2] \div g)
RLe(x, y) ==
    IF Small(x, y) THEN x[1] * y[2] <= y[1] * x[2]
    ELSE LET g == GCD(x[2], y[2])
         IN  x[1] * (y[2] \div g) <= y[1] * (x[2] \div g)
RGt(x, y) == RLt(y, x)
RGe(x, y) == RLe(y, x)
RMax(x, y) == IF RLt(x, y) THEN y ELSE x
RMin(x, y) == IF RLt(y, x) THEN y ELSE x

\* FMath::Clamp(X, Min, Max): X < Min ? Min : (X < Max ? X : Max).
RClamp(x, lo, hi) == IF RLt(x, lo) THEN lo ELSE IF RLt(x, hi) THEN x ELSE hi

\* KINDA_SMALL_NUMBER, 1.e-4f.
KINDA_SMALL_NUMBER == <<1, 10000>>

Zero == R(0)
One == R(1)

(***************************************************************************)
(* FVector over integer coordinates (cm).                                  *)
(***************************************************************************)
VSub(p, q) == <<p[1] - q[1], p[2] - q[2], p[3] - q[3]>>
DotProduct(p, q) == p[1] * q[1] + p[2] * q[2] + p[3] * q[3]
CrossProduct(p, q) ==
    <<p[2] * q[3] - p[3] * q[2], p[3] * q[1] - p[1] * q[3], p[1] * q[2] - p[2] * q[1]>>

Sqrt(n) == CHOOSE r \in 0..n : r * r = n

\* FVector::Size(), exact on the vectors the model draws.
Size(v) == Sqrt(DotProduct(v, v))

ForwardVector == <<1, 0, 0>>
RightVector == <<0, 1, 0>>

Last(s) == s[Len(s)]

(***************************************************************************)
(* FFootContactResult.                                                     *)
(***************************************************************************)
FFootContactResult(InTime, InConfidence, bInIsContact, InSource) ==
    [Time |-> InTime, Confidence |-> InConfidence,
     bIsContact |-> bInIsContact, Source |-> InSource]


(***************************************************************************)
(* The animation asset, as the detectors read it.  AnimSequence is a       *)
(* record [FrameRate, Foot, Pelvis]: Foot[k] and Pelvis[k] are the world   *)
(* locations of the two bones at key k (sequences are 1-based: the code's  *)
(* key index i is i + 1 here).                                             *)
(***************************************************************************)
GetNumKeys(Anim) == Len(Anim.Foot)

\* UAnimationBlueprintLibrary::GetTimeAtFrame, for the code's 0-based KeyIndex.
GetTimeAtFrame(Anim, KeyIndex) == Rat(KeyIndex, Anim.FrameRate)

TimeIntervalsOf(Anim) == [k \in 1..GetNumKeys(Anim) |-> GetTimeAtFrame(Anim, k - 1)]

\* UAnimPoseExtensions::GetBonePose(Pose, FootBone, World).GetLocation().
FootWorldPositions(Anim) == Anim.Foot

(***************************************************************************)
(* FPelvisCrossingDetector.                                                *)
(***************************************************************************)
\* The pelvis keeps the world orientation, so the relative transform's
\* location is the difference of the two world locations.
GetFootRelativePosition(Anim, k) == VSub(Anim.Foot[k], Anim.Pelvis[k])

SetMin(S) == CHOOSE x \in S : \A y \in S : x <= y
SetMax(S) == CHOOSE x \in S : \A y \in S : y <= x

\* DeterminePrimaryMoveAxis choosing the right vector when the two ranges
\* are equal.
DeterminePrimaryMoveAxis_TieRight(Positions) ==
    IF Len(Positions) < 2 THEN ForwardVector
    ELSE LET Xs == {Positions[i][1] : i \in 1..Len(Positions)}
             Ys == {Positions[i][2] : i \in 1..Len(Positions)}
             XRange == SetMax(Xs) - SetMin(Xs)
             YRange == SetMax(Ys) - SetMin(Ys)
         IN  IF YRange >= XRange THEN RightVector ELSE ForwardVector

DeterminePrimaryMoveAxis(Positions) ==
    IF Len(Positions) < 2 THEN ForwardVector
    ELSE LET Xs == {Positions[i][1] : i \in 1..Len(Positions)}
             Ys == {Positions[i][2] : i \in 1..Len(Positions)}
             XRange == SetMax(Xs) - SetMin(Xs)
             YRange == SetMax(Ys) - SetMin(Ys)
         IN  IF YRange > XRange THEN RightVector ELSE ForwardVector

\* InterpolateCrossingTime with the sign of Pos1 kept.
InterpolateCrossingTime_SignKept(Time1, Pos1, Time2, Pos2) ==
    LET DeltaPos == RSub(Pos2, Pos1)
    IN  IF RLt(RAbs(DeltaPos), KINDA_SMALL_NUMBER)
        THEN RMul(RAdd(Time1, Time2), <<1, 2>>)
        ELSE LET t == RAdd(Time1, RDiv(RMul(Pos1, RSub(Time2, Time1)), DeltaPos))
             IN  RClamp(t, Time1, Time2)

\* InterpolateCrossingTime without the clamp.
InterpolateCrossingTime_Unclamped(Time1, Pos1, Time2, Pos2) ==
    LET DeltaPos == RSub(Pos2, Pos1)
    IN  IF RLt(RAbs(DeltaPos), KINDA_SMALL_NUMBER)
        THEN RMul(RAdd(Time1, Time2), <<1, 2>>)
        ELSE RAdd(Time1, RDiv(RMul(RNeg(Pos1), RSub(Time2, Time1)), DeltaPos))

InterpolateCrossingTime(Time1, Pos1, Time2, Pos2) ==
    LET DeltaPos == RSub(Pos2, Pos1)
    IN  IF RLt(RAbs(DeltaPos), KINDA_SMALL_NUMBER)
        THEN RMul(RAdd(Time1, Time2), <<1, 2>>)
        ELSE LET t == RAdd(Time1, RDiv(RMul(RNeg(Pos1), RSub(Time2, Time1)), DeltaPos))
             IN  RClamp(t, Time1, Time2)

\* CrossingAt taking a sample on the pelvis plane for a crossing.
CrossingAt_ZeroCounts(Positions, TimeIntervals, S, i) ==
    LET PrevPos == Positions[i - 1]
        CurrPos == Positions[i]
    IN  IF RLe(RMul(PrevPos, CurrPos), Zero)
        THEN LET CrossingTime == InterpolateCrossingTime(
                     TimeIntervals[i - 1], PrevPos, TimeIntervals[i], CurrPos)
                 bIsContact == RLt(PrevPos, Zero) /\ RGt(CurrPos, Zero)
                 PositionChange == RAbs(RSub(CurrPos, PrevPos))
                 Confidence == RClamp(RDiv(PositionChange, S.PelvisConfidenceScale),
                                      <<1, 2>>, One)
             IN  <<FFootContactResult(CrossingTime, Confidence, bIsContact, "PelvisCrossing")>>
        ELSE <<>>

\* The result of one consecutive pair (i - 1, i) of the scan, as a sequence
\* of zero or one results.
CrossingAt(Positions, TimeIntervals, S, i) ==
    LET PrevPos == Positions[i - 1]
        CurrPos == Positions[i]
    IN  IF RLt(RMul(PrevPos, CurrPos), Zero)
        THEN LET CrossingTime == InterpolateCrossingTime(
                     TimeIntervals[i - 1], PrevPos, TimeIntervals[i], CurrPos)
                 bIsContact == RLt(PrevPos, Zero) /\ RGt(CurrPos, Zero)
                 PositionChange == RAbs(RSub(CurrPos, PrevPos))
                 Confidence == RClamp(RDiv(PositionChange, S.PelvisConfidenceScale),
                                      <<1, 2>>, One)
             IN  <<FFootContactResult(CrossingTime, Confidence, bIsContact, "PelvisCrossing")>>
        ELSE <<>>

RECURSIVE CrossingScan(_, _, _, _)
CrossingScan(Positions, TimeIntervals, S, i) ==
    IF i > Len(Positions) THEN <<>>
    ELSE CrossingAt(Positions, TimeIntervals, S, i)
             \o CrossingScan(Positions, TimeIntervals, S, i + 1)

\* LoopBoundaryCrossing classifying by the direction from the first to the
\* last position.
LoopBoundaryCrossing_FirstToLast(Positions, TimeIntervals, S) ==
    IF Len(Positions) >= 2
    THEN LET FirstPos == Positions[1]
             LastPos == Last(Positions)
         IN  IF RLt(RMul(FirstPos, LastPos), Zero)
             THEN <<FFootContactResult(Last(TimeIntervals), S.LoopBoundaryConfidence,
                                       RLt(FirstPos, Zero) /\ RGt(LastPos, Zero),
                                       "PelvisCrossing")>>
             ELSE <<>>
    ELSE <<>>

\* LoopBoundaryCrossing with the confidence of a crossing of the scan.
LoopBoundaryCrossing_ScaledConfidence(Positions, TimeIntervals, S) ==
    IF Len(Positions) >= 2
    THEN LET FirstPos == Positions[1]
             LastPos == Last(Positions)
         IN  IF RLt(RMul(FirstPos, LastPos), Zero)
             THEN <<FFootContactResult(Last(TimeIntervals),
                        RClamp(RDiv(RAbs(RSub(FirstPos, LastPos)), S.PelvisConfidenceScale),
                               <<1, 2>>, One),
                        RLt(LastPos, Zero) /\ RGt(FirstPos, Zero),
                        "PelvisCrossing")>>
             ELSE <<>>
    ELSE <<>>

\* The crossing at the loop boundary, as a sequence of zero or one results.
LoopBoundaryCrossing(Positions, TimeIntervals, S) ==
    IF Len(Positions) >= 2
    THEN LET FirstPos == Positions[1]
             LastPos == Last(Positions)
         IN  IF RLt(RMul(FirstPos, LastPos), Zero)
             THEN <<FFootContactResult(Last(TimeIntervals), S.LoopBoundaryConfidence,
                                       RLt(LastPos, Zero) /\ RGt(FirstPos, Zero),
                                       "PelvisCrossing")>>
             ELSE <<>>
    ELSE <<>>

\* DetectContacts from the projected positions on: the scan of the
\* consecutive pairs, then the loop boundary.
FindZeroCrossings(Positions, TimeIntervals, S) ==
    CrossingScan(Positions, TimeIntervals, S, 2)
        \o LoopBoundaryCrossing(Positions, TimeIntervals, S)

ProjectedPositions(Anim) ==
    LET RelativePositions == [k \in 1..GetNumKeys(Anim) |-> GetFootRelativePosition(Anim, k)]
        MoveAxis == DeterminePrimaryMoveAxis(RelativePositions)
    IN  [k \in 1..GetNumKeys(Anim) |-> R(DotProduct(RelativePositions[k], MoveAxis))]

NAME_None == "None"

\* PelvisDetectContacts not testing the pelvis bone name.
PelvisDetectContacts_FootNameOnly(Anim, Foot, Preset, S) ==
    IF Foot.BoneName = NAME_None THEN <<>>
    ELSE IF GetNumKeys(Anim) < 2 THEN <<>>
    ELSE FindZeroCrossings(ProjectedPositions(Anim), TimeIntervalsOf(Anim), S)

PelvisDetectContacts(Anim, Foot, Preset, S) ==
    IF Foot.BoneName = NAME_None \/ Preset.PelvisBoneName = NAME_None THEN <<>>
    ELSE IF GetNumKeys(Anim) < 2 THEN <<>>
    ELSE FindZeroCrossings(ProjectedPositions(Anim), TimeIntervalsOf(Anim), S)

(***************************************************************************)
(* FVelocityCurveDetector.  A detector instance is the record              *)
(* [bHasThresholdOverride, ThresholdOverride] of its two fields.           *)
(***************************************************************************)
\* The speed at key i (1-based) by forward, backward or central difference.
VelocityAt(Positions, Times, i) ==
    IF i = 1
    THEN LET DeltaTime == RSub(Times[2], Times[1])
         IN  IF RGt(DeltaTime, KINDA_SMALL_NUMBER)
             THEN RDiv(R(Size(VSub(Positions[2], Positions[1]))), DeltaTime)
             ELSE Zero
    ELSE IF i = Len(Positions)
    THEN LET DeltaTime == RSub(Times[i], Times[i - 1])
         IN  IF RGt(DeltaTime, KINDA_SMALL_NUMBER)
             THEN RDiv(R(Size(VSub(Positions[i], Positions[i - 1]))), DeltaTime)
             ELSE Zero
    ELSE LET DeltaTime1 == RSub(Times[i], Times[i - 1])
             DeltaTime2 == RSub(Times[i + 1], Times[i])
             TotalDeltaTime == RAdd(DeltaTime1, DeltaTime2)
         IN  IF RGt(TotalDeltaTime, KINDA_SMALL_NUMBER)
             THEN RDiv(R(Size(VSub(Positions[i + 1], Positions[i - 1]))), TotalDeltaTime)
             ELSE Zero

CalculateVelocities(Positions, Times) ==
    IF Len(Positions) < 2 THEN <<>>
    ELSE [i \in 1..Len(Positions) |-> VelocityAt(Positions, Times, i)]

\* IsInteriorMinimum keeping the strict minima above the threshold.
IsInteriorMinimum_AboveThreshold(Velocities, Threshold, i) ==
    LET Prev == Velocities[i - 1]
        Curr == Velocities[i]
        Next == Velocities[i + 1]
    IN  IF RLt(Curr, Prev) /\ RLt(Curr, Next)
        THEN RGt(Curr, Threshold)
        ELSE IF RLe(Curr, Prev) /\ RLt(Curr, Next) /\ RLt(Curr, Threshold)
        THEN TRUE
        ELSE RLt(Curr, Prev) /\ RLe(Curr, Next) /\ RLt(Curr, Threshold)

\* IsInteriorMinimum without the flat regions.
IsInteriorMinimum_StrictOnly(Velocities, Threshold, i) ==
    LET Prev == Velocities[i - 1]
        Curr == Velocities[i]
        Next == Velocities[i + 1]
    IN  RLt(Curr, Prev) /\ RLt(Curr, Next) /\ RLt(Curr, Threshold)

\* Whether the interior loop of FindLocalMinima adds index i (1-based,
\* 2 <= i <= Len - 1).
IsInteriorMinimum(Velocities, Threshold, i) ==
    LET Prev == Velocities[i - 1]
        Curr == Velocities[i]
        Next == Velocities[i + 1]
    IN  IF RLt(Curr, Prev) /\ RLt(Curr, Next)
        THEN RLt(Curr, Threshold)
        ELSE IF RLe(Curr, Prev) /\ RLt(Curr, Next) /\ RLt(Curr, Threshold)
        THEN TRUE
        ELSE RLt(Curr, Prev) /\ RLe(Curr, Next) /\ RLt(Curr, Threshold)

RECURSIVE InteriorMinima(_, _, _)
InteriorMinima(Velocities, Threshold, i) ==
    IF i > Len(Velocities) - 1 THEN <<>>
    ELSE (IF IsInteriorMinimum(Velocities, Threshold, i) THEN <<i>> ELSE <<>>)
             \o InteriorMinima(Velocities, Threshold, i + 1)

\* FindLocalMinima adding the first index after the interior ones.
FindLocalMinima_FirstAppended(Velocities, Threshold) ==
    IF Len(Velocities) < 3 THEN <<>>
    ELSE LET Interior == InteriorMinima(Velocities, Threshold, 2)
             LastIndex == Len(Velocities)
             WithFirst ==
                 IF RLt(Velocities[1], Threshold) /\ RLt(Velocities[1], Velocities[2])
                 THEN Append(Interior, 1)
                 ELSE Interior
         IN  IF RLt(Velocities[LastIndex], Threshold)
                    /\ RLt(Velocities[LastIndex], Velocities[LastIndex - 1])
             THEN Append(WithFirst, LastIndex)
             ELSE WithFirst

\* The indices returned are 1-based: the code's index plus one.
FindLocalMinima(Velocities, Threshold) ==
    IF Len(Velocities) < 3 THEN <<>>
    ELSE LET Interior == InteriorMinima(Velocities, Threshold, 2)
             LastIndex == Len(Velocities)
             WithFirst ==
                 IF RLt(Velocities[1], Threshold) /\ RLt(Velocities[1], Velocities[2])
                 THEN <<1>> \o Interior
                 ELSE Interior
         IN  IF RLt(Velocities[LastIndex], Threshold)
                    /\ RLt(Velocities[LastIndex], Velocities[LastIndex - 1])
             THEN Append(WithFirst, LastIndex)
             ELSE WithFirst

RECURSIVE SeqMax(_, _)
SeqMax(s, acc) == IF s = <<>> THEN acc ELSE SeqMax(Tail(s), RMax(acc, Head(s)))

VelocityConfidence(Velocity, MaxVelocity, S) ==
    IF RGt(MaxVelocity, KINDA_SMALL_NUMBER)
    THEN RSub(One, RClamp(RDiv(Velocity, MaxVelocity), Zero, <<9, 10>>))
    ELSE S.VelocityDefaultConfidence

\* DetectContacts from the velocities on: the minima, then one result each.
VelocityMinimaResults(Velocities, Times, Threshold, S) ==
    IF Len(Velocities) < 3 THEN <<>>
    ELSE LET MinimaIndices == FindLocalMinima(Velocities, Threshold)
             MaxVelocity == SeqMax(Velocities, Zero)
         IN  [k \in 1..Len(MinimaIndices) |->
                 FFootContactResult(Times[MinimaIndices[k]],
                     VelocityConfidence(Velocities[MinimaIndices[k]], MaxVelocity, S),
                     TRUE, "VelocityCurve")]

VelocityThresholdOf(Detector, S) ==
    IF Detector.bHasThresholdOverride THEN Detector.ThresholdOverride
    ELSE S.VelocityMinimumThreshold

VelocityDetectContacts(Detector, Anim, Foot, Preset, S) ==
    IF Foot.BoneName = NAME_None THEN <<>>
    ELSE IF GetNumKeys(Anim) < 3 THEN <<>>
    ELSE VelocityMinimaResults(
             CalculateVelocities(FootWorldPositions(Anim), TimeIntervalsOf(Anim)),
             TimeIntervalsOf(Anim), VelocityThresholdOf(Detector, S), S)

(***************************************************************************)
(* FSaliencyDetector.                                                      *)
(***************************************************************************)
CalculatePointCurvature(P0, P1, P2) ==
    LET V1 == VSub(P1, P0)
        V2 == VSub(P2, P0)
        V3 == VSub(P2, P1)
        A == Size(V1)
        B == Size(V3)
        C == Size(V2)
        TriangleAreaTimesTwo == Size(CrossProduct(V1, V2))
        Denominator == A * B * C
    IN  IF RLt(R(Denominator), KINDA_SMALL_NUMBER) THEN Zero
        ELSE Rat(2 * TriangleAreaTimesTwo, Denominator)

CalculateCurvature(Positions, Times) ==
    IF Len(Positions) < 3 THEN <<>>
    ELSE [i \in 1..Len(Positions) |->
             IF i = 1 \/ i = Len(Positions) THEN Zero
             ELSE CalculatePointCurvature(Positions[i - 1], Positions[i], Positions[i + 1])]

CurvatureDerivativesOf(Curvatures, Times) ==
    [i \in 1..Len(Curvatures) |->
        IF i = 1 THEN Zero
        ELSE LET DeltaTime == RSub(Times[i], Times[i - 1])
             IN  IF RGt(DeltaTime, KINDA_SMALL_NUMBER)
                 THEN RDiv(RAbs(RSub(Curvatures[i], Curvatures[i - 1])), DeltaTime)
                 ELSE Zero]

RECURSIVE SeqSum(_)
SeqSum(s) == IF s = <<>> THEN Zero ELSE RAdd(Head(s), SeqSum(Tail(s)))

AdaptiveThresholdOf(CurvatureDerivatives, Threshold) ==
    LET MeanDerivative == RDiv(SeqSum(CurvatureDerivatives), R(Len(CurvatureDerivatives)))
        MaxDerivative == SeqMax(CurvatureDerivatives, Zero)
    IN  RAdd(MeanDerivative, RMul(Threshold, RSub(MaxDerivative, MeanDerivative)))

\* IsSalientCandidate taking a derivative equal to the adaptive threshold
\* for a high one.
IsSalientCandidate_AtThreshold(Curvatures, CurvatureDerivatives, AdaptiveThreshold, i) ==
    LET bIsCurvaturePeak == RGt(Curvatures[i], Curvatures[i - 1])
                                /\ RGt(Curvatures[i], Curvatures[i + 1])
        bHighDerivative == RGe(CurvatureDerivatives[i], AdaptiveThreshold)
                               \/ (i + 1 <= Len(CurvatureDerivatives)
                                   /\ RGe(CurvatureDerivatives[i + 1], AdaptiveThreshold))
    IN  bIsCurvaturePeak \/ bHighDerivative

\* bIsCurvaturePeak || bHighDerivative at index i (1-based interior).
IsSalientCandidate(Curvatures, CurvatureDerivatives, AdaptiveThreshold, i) ==
    LET bIsCurvaturePeak == RGt(Curvatures[i], Curvatures[i - 1])
                                /\ RGt(Curvatures[i], Curvatures[i + 1])
        bHighDerivative == RGt(CurvatureDerivatives[i], AdaptiveThreshold)
                               \/ (i + 1 <= Len(CurvatureDerivatives)
                                   /\ RGt(CurvatureDerivatives[i + 1], AdaptiveThreshold))
    IN  bIsCurvaturePeak \/ bHighDerivative

\* SalientScan accepting every candidate.
RECURSIVE SalientScan_NoWindow(_, _, _, _, _, _, _)
SalientScan_NoWindow(Curvatures, Times, Derivs, AdaptiveThreshold, WindowSize, SalientIndices, i) ==
    IF i > Len(Curvatures) - 1 THEN SalientIndices
    ELSE SalientScan_NoWindow(Curvatures, Times, Derivs, AdaptiveThreshold, WindowSize,
             IF IsSalientCandidate(Curvatures, Derivs, AdaptiveThreshold, i)
             THEN Append(SalientIndices, i)
             ELSE SalientIndices,
             i + 1)

\* The scan of the interior indices from i on, SalientIndices being those
\* accepted so far.
RECURSIVE SalientScan(_, _, _, _, _, _, _)
SalientScan(Curvatures, Times, Derivs, AdaptiveThreshold, WindowSize, SalientIndices, i) ==
    IF i > Len(Curvatures) - 1 THEN SalientIndices
    ELSE LET bTooClose == \E k \in 1..Len(SalientIndices) :
                 RLt(RAbs(RSub(Times[i], Times[SalientIndices[k]])), WindowSize)
             Accepted ==
                 IF IsSalientCandidate(Curvatures, Derivs, AdaptiveThreshold, i) /\ ~bTooClose
                 THEN Append(SalientIndices, i)
                 ELSE SalientIndices
         IN  SalientScan(Curvatures, Times, Derivs, AdaptiveThreshold, WindowSize,
                         Accepted, i + 1)

FindSalientPoints(Curvatures, Times, WindowSize, Threshold) ==
    IF Len(Curvatures) < 3 \/ Len(Times) # Len(Curvatures) THEN <<>>
    ELSE LET Derivs == CurvatureDerivativesOf(Curvatures, Times)
         IN  SalientScan(Curvatures, Times, Derivs, AdaptiveThresholdOf(Derivs, Threshold),
                         WindowSize, <<>>, 2)

\* The mean of Positions[i].Z over lo..hi as a rational (0 when empty).
MeanHeight(Positions, lo, hi) ==
    IF hi < lo THEN Zero
    ELSE LET RECURSIVE Sum(_)
             Sum(i) == IF i > hi THEN 0 ELSE Positions[i][3] + Sum(i + 1)
         IN  Rat(Sum(lo), hi - lo + 1)

\* IsFootContact taking a height that stays level for one that will
\* increase.
IsFootContact_LevelIncreases(Positions, SalientIndex) ==
    IF SalientIndex <= 1 \/ SalientIndex >= Len(Positions) THEN TRUE
    ELSE LET WindowStart == IF SalientIndex - 2 < 1 THEN 1 ELSE SalientIndex - 2
             WindowEnd == IF SalientIndex + 2 > Len(Positions) THEN Len(Positions)
                          ELSE SalientIndex + 2
             HeightBefore == MeanHeight(Positions, WindowStart, SalientIndex - 1)
             HeightAfter == MeanHeight(Positions, SalientIndex + 1, WindowEnd)
             HeightAtPoint == R(Positions[SalientIndex][3])
             bWasDecreasing == RGt(HeightBefore, HeightAtPoint)
             bWillIncrease == RGe(HeightAfter, HeightAtPoint)
         IN  bWasDecreasing \/ ~bWillIncrease

\* SalientIndex is 1-based: the code's index plus one.
IsFootContact(Positions, SalientIndex) ==
    IF SalientIndex <= 1 \/ SalientIndex >= Len(Positions) THEN TRUE
    ELSE LET WindowStart == IF SalientIndex - 2 < 1 THEN 1 ELSE SalientIndex - 2
             WindowEnd == IF SalientIndex + 2 > Len(Positions) THEN Len(Positions)
                          ELSE SalientIndex + 2
             HeightBefore == MeanHeight(Positions, WindowStart, SalientIndex - 1)
             HeightAfter == MeanHeight(Positions, SalientIndex + 1, WindowEnd)
             HeightAtPoint == R(Positions[SalientIndex][3])
             bWasDecreasing == RGt(HeightBefore, HeightAtPoint)
             bWillIncrease == RGt(HeightAfter, HeightAtPoint)
         IN  bWasDecreasing \/ ~bWillIncrease

SaliencyConfidence(Curvature, MaxCurvature, S) ==
    IF RGt(MaxCurvature, KINDA_SMALL_NUMBER)
    THEN RClamp(RDiv(Curvature, MaxCurvature), S.SaliencyMinConfidence, One)
    ELSE S.SaliencyDefaultConfidence

SaliencyThresholdOf(Detector, S) ==
    IF Detector.bHasThresholdOverride THEN Detector.ThresholdOverride
    ELSE S.SaliencyThreshold

SaliencyDetectContacts(Detector, Anim, Foot, Preset, S) ==
    IF Foot.BoneName = NAME_None THEN <<>>
    ELSE IF GetNumKeys(Anim) < 4 THEN <<>>
    ELSE LET Positions == FootWorldPositions(Anim)
             Times == TimeIntervalsOf(Anim)
             Curvatures == CalculateCurvature(Positions, Times)
         IN  IF Len(Curvatures) < 3 THEN <<>>
             ELSE LET SalientIndices == FindSalientPoints(Curvatures, Times,
                          S.SaliencyWindowSize, SaliencyThresholdOf(Detector, S))
                      MaxCurvature == SeqMax(Curvatures, Zero)
                  IN  [k \in 1..Len(SalientIndices) |->
                          FFootContactResult(Times[SalientIndices[k]],
                              SaliencyConfidence(Curvatures[SalientIndices[k]], MaxCurvature, S),
                              IsFootContact(Positions, SalientIndices[k]),
                              "Saliency")]

(***************************************************************************)
(* FCompositeDetector.  An instance is the record of its three weights     *)
(* and of its inner velocity and saliency detectors (the inner pelvis      *)
(* detector has no fields).                                                *)
(***************************************************************************)
GetWeightForMethod(Composite, Method) ==
    CASE Method = "PelvisCrossing" -> Composite.PelvisCrossingWeight
      [] Method = "VelocityCurve" -> Composite.VelocityCurveWeight
      [] Method = "Saliency" -> Composite.SaliencyWeight
      [] OTHER -> One

\* ClusterScan closing the cluster at a gap equal to the threshold.
RECURSIVE ClusterScan_Strict(_, _, _, _, _, _)
ClusterScan_Strict(AllResults, MergeThreshold, Clusters, CurrentCluster, ClusterStartTime, i) ==
    IF i > Len(AllResults)
    THEN IF Len(CurrentCluster) > 0 THEN Append(Clusters, CurrentCluster) ELSE Clusters
    ELSE LET Result == AllResults[i]
         IN  IF RLt(RSub(Result.Time, ClusterStartTime), MergeThreshold)
             THEN ClusterScan_Strict(AllResults, MergeThreshold, Clusters,
                                     Append(CurrentCluster, Result), ClusterStartTime, i + 1)
             ELSE ClusterScan_Strict(AllResults, MergeThreshold,
                                     Append(Clusters, CurrentCluster),
                                     <<Result>>, Result.Time, i + 1)

\* ClusterScan measuring the gap to the member before, not to the first
\* member of the cluster.
RECURSIVE ClusterScan_Chained(_, _, _, _, _, _)
ClusterScan_Chained(AllResults, MergeThreshold, Clusters, CurrentCluster, ClusterStartTime, i) ==
    IF i > Len(AllResults)
    THEN IF Len(CurrentCluster) > 0 THEN Append(Clusters, CurrentCluster) ELSE Clusters
    ELSE LET Result == AllResults[i]
         IN  IF RLe(RSub(Result.Time, ClusterStartTime), MergeThreshold)
             THEN ClusterScan_Chained(AllResults, MergeThreshold, Clusters,
                                      Append(CurrentCluster, Result), Result.Time, i + 1)
             ELSE ClusterScan_Chained(AllResults, MergeThreshold,
                                      Append(Clusters, CurrentCluster),
                                      <<Result>>, Result.Time, i + 1)

\* The loop of ClusterResultsByTime from index i on.
RECURSIVE ClusterScan(_, _, _, _, _, _)
ClusterScan(AllResults, MergeThreshold, Clusters, CurrentCluster, ClusterStartTime, i) ==
    IF i > Len(AllResults)
    THEN IF Len(CurrentCluster) > 0 THEN Append(Clusters, CurrentCluster) ELSE Clusters
    ELSE LET Result == AllResults[i]
         IN  IF RLe(RSub(Result.Time, ClusterStartTime), MergeThreshold)
             THEN ClusterScan(AllResults, MergeThreshold, Clusters,
                              Append(CurrentCluster, Result), ClusterStartTime, i + 1)
             ELSE ClusterScan(AllResults, MergeThreshold, Append(Clusters, CurrentCluster),
                              <<Result>>, Result.Time, i + 1)

ClusterResultsByTime(AllResults, MergeThreshold) ==
    IF Len(AllResults) = 0 THEN <<>>
    ELSE ClusterScan(AllResults, MergeThreshold, <<>>, <<AllResults[1]>>,
                     AllResults[1].Time, 2)

\* The accumulators of CalculateClusterResult before its loop.
InitialSums ==
    [WeightedTimeSum |-> Zero, TotalWeight |-> Zero, MaxConfidence |-> Zero,
     ContactVotes |-> 0, LiftOffVotes |-> 0]

\* ClusterSums weighting each member by its confidence alone.
RECURSIVE ClusterSums_ConfidenceOnly(_, _, _, _)
ClusterSums_ConfidenceOnly(Composite, Cluster, i, acc) ==
    IF i > Len(Cluster) THEN acc
    ELSE LET Result == Cluster[i]
             CombinedWeight == Result.Confidence
         IN  ClusterSums_ConfidenceOnly(Composite, Cluster, i + 1,
                 [WeightedTimeSum |-> RAdd(acc.WeightedTimeSum, RMul(Result.Time, CombinedWeight)),
                  TotalWeight |-> RAdd(acc.TotalWeight, CombinedWeight),
                  MaxConfidence |-> RMax(acc.MaxConfidence, Result.Confidence),
                  ContactVotes |-> acc.ContactVotes + (IF Result.bIsContact THEN 1 ELSE 0),
                  LiftOffVotes |-> acc.LiftOffVotes + (IF Result.bIsContact THEN 0 ELSE 1)])

\* The loop of CalculateClusterResult over the members from index i on.
RECURSIVE ClusterSums(_, _, _, _)
ClusterSums(Composite, Cluster, i, acc) ==
    IF i > Len(Cluster) THEN acc
    ELSE LET Result == Cluster[i]
             MethodWeight == GetWeightForMethod(Composite, Result.Source)
             CombinedWeight == RMul(MethodWeight, Result.Confidence)
         IN  ClusterSums(Composite, Cluster, i + 1,
                 [WeightedTimeSum |-> RAdd(acc.WeightedTimeSum, RMul(Result.Time, CombinedWeight)),
                  TotalWeight |-> RAdd(acc.TotalWeight, CombinedWeight),
                  MaxConfidence |-> RMax(acc.MaxConfidence, Result.Confidence),
                  ContactVotes |-> acc.ContactVotes + (IF Result.bIsContact THEN 1 ELSE 0),
                  LiftOffVotes |-> acc.LiftOffVotes + (IF Result.bIsContact THEN 0 ELSE 1)])

\* The fallback's loop: the plain sum of the members' times.
RECURSIVE TimeSum(_, _, _)
TimeSum(Cluster, i, Sum) ==
    IF i > Len(Cluster) THEN Sum ELSE TimeSum(Cluster, i + 1, RAdd(Sum, Cluster[i].Time))

\* FFootContactResult(): the default member initialisers.
DefaultResult == FFootContactResult(Zero, Zero, TRUE, "PelvisCrossing")

\* MergedTime leaving the weighted sum of the times undivided.
MergedTime_Undivided(Cluster, acc) ==
    IF RGt(acc.TotalWeight, KINDA_SMALL_NUMBER)
    THEN acc.WeightedTimeSum
    ELSE RDiv(TimeSum(Cluster, 1, Zero), R(Len(Cluster)))

\* MergedTime taking the plain mean of the times whatever the weights.
MergedTime_PlainMean(Cluster, acc) ==
    RDiv(TimeSum(Cluster, 1, Zero), R(Len(Cluster)))

MergedTime(Cluster, acc) ==
    IF RGt(acc.TotalWeight, KINDA_SMALL_NUMBER)
    THEN RDiv(acc.WeightedTimeSum, acc.TotalWeight)
    ELSE RDiv(TimeSum(Cluster, 1, Zero), R(Len(Cluster)))

\* MergedConfidence without the clamp.
MergedConfidence_Unclamped(Cluster, acc, S) ==
    LET AgreementBonus == RMul(R(Len(Cluster) - 1), S.DetectorAgreementBonus)
    IN  RAdd(acc.MaxConfidence, AgreementBonus)

\* MergedConfidence granting the bonus once per member.
MergedConfidence_PerMember(Cluster, acc, S) ==
    LET AgreementBonus == RMul(R(Len(Cluster)), S.DetectorAgreementBonus)
    IN  RClamp(RAdd(acc.MaxConfidence, AgreementBonus), Zero, One)

\* MergedConfidence raising the first member's confidence, not the largest.
MergedConfidence_FirstMember(Cluster, acc, S) ==
    LET AgreementBonus == RMul(R(Len(Cluster) - 1), S.DetectorAgreementBonus)
    IN  RClamp(RAdd(Cluster[1].Confidence, AgreementBonus), Zero, One)

\* MergedConfidence granting the bonus per further detector, not per
\* further result.
MergedConfidence_PerDetector(Cluster, acc, S) ==
    LET Sources == { Cluster[i].Source : i \in 1..Len(Cluster) }
        AgreementBonus == RMul(R(Cardinality(Sources) - 1), S.DetectorAgreementBonus)
    IN  RClamp(RAdd(acc.MaxConfidence, AgreementBonus), Zero, One)

MergedConfidence(Cluster, acc, S) ==
    LET AgreementBonus == RMul(R(Len(Cluster) - 1), S.DetectorAgreementBonus)
    IN  RClamp(RAdd(acc.MaxConfidence, AgreementBonus), Zero, One)

\* MergedIsContact giving a tie to lift-off.
MergedIsContact_StrictMajority(acc) == acc.ContactVotes > acc.LiftOffVotes

\* MergedResult.bIsContact: the majority vote.
MergedIsContact(acc) == acc.ContactVotes >= acc.LiftOffVotes

\* CalculateClusterResult fusing a cluster of one like any other.
CalculateClusterResult_FusingSingles(Composite, Cluster, S) ==
    IF Len(Cluster) = 0 THEN DefaultResult
    ELSE LET acc == ClusterSums(Composite, Cluster, 1, InitialSums)
         IN  FFootContactResult(MergedTime(Cluster, acc),
                                MergedConfidence(Cluster, acc, S),
                                MergedIsContact(acc),
                                "Composite")

CalculateClusterResult(Composite, Cluster, S) ==
    IF Len(Cluster) = 0 THEN DefaultResult
    ELSE IF Len(Cluster) = 1 THEN Cluster[1]
    ELSE LET acc == ClusterSums(Composite, Cluster, 1, InitialSums)
         IN  FFootContactResult(MergedTime(Cluster, acc),
                                MergedConfidence(Cluster, acc, S),
                                MergedIsContact(acc),
                                "Composite")

\* TArray::Sort is not a stable sort: it may leave results of equal time in
\* any order.  The orders it can produce are the permutations of AllResults
\* in which the times never decrease.
RECURSIVE SortedOrders(_, _)
SortedOrders(AllResults, Idx) ==
    IF Idx = {} THEN {<<>>}
    ELSE UNION { { <<AllResults[i]>> \o rest : rest \in SortedOrders(AllResults, Idx \ {i}) } :
                 i \in { j \in Idx : \A k \in Idx : RLe(AllResults[j].Time, AllResults[k].Time) } }

\* SortByTime leaving the list as concatenated.
SortByTime_Unsorted(AllResults) == { AllResults }

SortByTime(AllResults) == SortedOrders(AllResults, DOMAIN AllResults)

\* MergeResults after the sort: Sorted is AllResults as the sort left it.
FinalResultsOf(Composite, Sorted, S) ==
    LET Clusters == ClusterResultsByTime(Sorted, S.ResultMergeThreshold)
    IN  [k \in 1..Len(Clusters) |-> CalculateClusterResult(Composite, Clusters[k], S)]

\* The set of lists MergeResults can return.
MergeResults(Composite, PelvisResults, VelocityResults, SaliencyResults, S) ==
    LET AllResults == PelvisResults \o VelocityResults \o SaliencyResults
    IN  IF Len(AllResults) = 0 THEN {<<>>}
        ELSE { FinalResultsOf(Composite, Sorted, S) : Sorted \in SortByTime(AllResults) }

\* CompositeLeafResults running every detector whatever its weight.
CompositeLeafResults_AlwaysRun(Composite, Anim, Foot, Preset, S) ==
    [Pelvis |-> PelvisDetectContacts(Anim, Foot, Preset, S),
     Velocity |-> VelocityDetectContacts(Composite.VelocityDetector, Anim, Foot, Preset, S),
     Saliency |-> SaliencyDetectContacts(Composite.SaliencyDetector, Anim, Foot, Preset, S)]

\* The three lists DetectContacts hands to MergeResults.
CompositeLeafResults(Composite, Anim, Foot, Preset, S) ==
    [Pelvis |-> IF RGt(Composite.PelvisCrossingWeight, KINDA_SMALL_NUMBER)
                THEN PelvisDetectContacts(Anim, Foot, Preset, S) ELSE <<>>,
     Velocity |-> IF RGt(Composite.VelocityCurveWeight, KINDA_SMALL_NUMBER)
                  THEN VelocityDetectContacts(Composite.VelocityDetector, Anim, Foot, Preset, S)
                  ELSE <<>>,
     Saliency |-> IF RGt(Composite.SaliencyWeight, KINDA_SMALL_NUMBER)
                  THEN SaliencyDetectContacts(Composite.SaliencyDetector, Anim, Foot, Preset, S)
                  ELSE <<>>]

CompositeDetectContacts(Composite, Anim, Foot, Preset, S) ==
    LET Leaf == CompositeLeafResults(Composite, Anim, Foot, Preset, S)
    IN  MergeResults(Composite, Leaf.Pelvis, Leaf.Velocity, Leaf.Saliency, S)

(***************************************************************************)
(* UFootSyncMarkerSettings: the defaults of the settings singleton.        *)
(***************************************************************************)
DefaultSettings ==
    [DetectionMethod |-> "Composite",
     MinimumConfidence |-> <<3, 10>>,
     MaxMarkersPerFoot |-> 2,
     bGuaranteeMinimumOne |-> TRUE,
     MinimumMarkerInterval |-> <<1, 10>>,
     PelvisConfidenceScale |-> R(50),
     LoopBoundaryConfidence |-> <<7, 10>>,
     VelocityMinimumThreshold |-> R(5),
     VelocityDefaultConfidence |-> <<1, 2>>,
     SaliencyWindowSize |-> <<1, 10>>,
     SaliencyThreshold |-> <<1, 2>>,
     SaliencyDefaultConfidence |-> <<1, 2>>,
     SaliencyMinConfidence |-> <<3, 10>>,
     ResultMergeThreshold |-> <<1, 20>>,
     DetectorAgreementBonus |-> <<1, 10>>,
     CompositeWeights |-> [PelvisCrossingWeight |-> <<2, 5>>,
                           VelocityCurveWeight |-> <<3, 10>>,
                           SaliencyWeight |-> <<3, 10>>]]

\* A detector with a threshold override, as constructed.
NoOverride == [bHasThresholdOverride |-> FALSE, ThresholdOverride |-> Zero]

\* FCompositeDetector(Weights).
NewComposite(Weights) ==
    [PelvisCrossingWeight |-> Weights.PelvisCrossingWeight,
     VelocityCurveWeight |-> Weights.VelocityCurveWeight,
     SaliencyWeight |-> Weights.SaliencyWeight,
     VelocityDetector |-> NoOverride,
     SaliencyDetector |-> NoOverride]

NoLeaf == [Pelvis |-> <<>>, Velocity |-> <<>>, Saliency |-> <<>>]

(***************************************************************************)
(* UFootSyncMarkerModifier: the per-animation options as constructed, the  *)
(* effective options, and the steps of ProcessAnimation for one foot.      *)
(***************************************************************************)
NewModifier ==
    [bOverrideDetectionMethod |-> FALSE, DetectionMethodOverride |-> "Composite",
     bOverrideMinimumConfidence |-> FALSE, MinimumConfidenceOverride |-> <<3, 10>>,
     bOverrideVelocityThreshold |-> FALSE, VelocityThresholdOverride |-> R(5),
     bOverrideSaliencyThreshold |-> FALSE, SaliencyThresholdOverride |-> <<1, 2>>,
     bOverrideMaxMarkersPerFoot |-> FALSE, MaxMarkersPerFootOverride |-> 2,
     bOverrideGuaranteeMinimumOne |-> FALSE, bGuaranteeMinimumOneOverride |-> TRUE]

GetEffectiveDetectionMethod(M, S) ==
    IF M.bOverrideDetectionMethod THEN M.DetectionMethodOverride ELSE S.DetectionMethod

GetEffectiveMinimumConfidence(M, S) ==
    IF M.bOverrideMinimumConfidence THEN M.MinimumConfidenceOverride ELSE S.MinimumConfidence

GetEffectiveMaxMarkersPerFoot(M, S) ==
    IF M.bOverrideMaxMarkersPerFoot THEN M.MaxMarkersPerFootOverride ELSE S.MaxMarkersPerFoot

GetEffectiveGuaranteeMinimumOne(M, S) ==
    IF M.bOverrideGuaranteeMinimumOne THEN M.bGuaranteeMinimumOneOverride
    ELSE S.bGuaranteeMinimumOne

\* A leaf detector as DetectFootContacts leaves it before DetectContacts:
\* with the modifier's threshold when the modifier overrides it.
OverriddenBy(bOverride, Threshold) ==
    IF bOverride THEN [bHasThresholdOverride |-> TRUE, ThresholdOverride |-> Threshold]
    ELSE NoOverride

\* The lists DetectFootContacts can return: the detector of the effective
\* method is created, given the modifier's threshold overrides and run.
DetectFootContacts(M, Anim, Foot, Preset, S) ==
    LET EffectiveMethod == GetEffectiveDetectionMethod(M, S)
        Velocity == OverriddenBy(M.bOverrideVelocityThreshold, M.VelocityThresholdOverride)
        Saliency == OverriddenBy(M.bOverrideSaliencyThreshold, M.SaliencyThresholdOverride)
    IN  CASE EffectiveMethod = "PelvisCrossing" ->
               { PelvisDetectContacts(Anim, Foot, Preset, S) }
          [] EffectiveMethod = "VelocityCurve" ->
               { VelocityDetectContacts(Velocity, Anim, Foot, Preset, S) }
          [] EffectiveMethod = "Saliency" ->
               { SaliencyDetectContacts(Saliency, Anim, Foot, Preset, S) }
          [] OTHER ->
               CompositeDetectContacts(
                   [NewComposite(S.CompositeWeights) EXCEPT !.VelocityDetector = Velocity,
                                                            !.SaliencyDetector = Saliency],
                   Anim, Foot, Preset, S)

\* The contact results of the list, in its order.
RECURSIVE ContactsOf(_)
ContactsOf(Results) ==
    IF Len(Results) = 0 THEN <<>>
    ELSE (IF Head(Results).bIsContact THEN <<Head(Results)>> ELSE <<>>)
             \o ContactsOf(Tail(Results))

\* The orders the sort by descending confidence can leave the list in:
\* TArray::Sort may leave results of equal confidence in any order.
RECURSIVE ConfidenceOrders(_, _)
ConfidenceOrders(List, Idx) ==
    IF Idx = {} THEN {<<>>}
    ELSE UNION { { <<List[i]>> \o rest : rest \in ConfidenceOrders(List, Idx \ {i}) } :
                 i \in { j \in Idx : \A k \in Idx : RGe(List[j].Confidence, List[k].Confidence) } }

SortByConfidence(List) == ConfidenceOrders(List, DOMAIN List)

\* ContactResults.SetNum(MaxMarkers) when there are more than MaxMarkers > 0.
SelectTopN(ContactResults, MaxMarkers) ==
    IF MaxMarkers > 0 /\ Len(ContactResults) > MaxMarkers
    THEN SubSeq(ContactResults, 1, MaxMarkers)
    ELSE ContactResults

\* The results of confidence above MinConfidence, in the order of the list.
RECURSIVE FilterByConfidence(_, _)
FilterByConfidence(ContactResults, MinConfidence) ==
    IF Len(ContactResults) = 0 THEN <<>>
    ELSE (IF RGt(Head(ContactResults).Confidence, MinConfidence)
          THEN <<Head(ContactResults)>> ELSE <<>>)
             \o FilterByConfidence(Tail(ContactResults), MinConfidence)

\* GuaranteeOne without the guarantee.
GuaranteeOne_Off(ConfidentResults, ContactResults, bGuaranteeMinimumOne) ==
    ConfidentResults

\* The guarantee step: the best contact result when none is confident.
GuaranteeOne(ConfidentResults, ContactResults, bGuaranteeMinimumOne) ==
    IF Len(ConfidentResults) = 0 /\ bGuaranteeMinimumOne /\ Len(ContactResults) > 0
    THEN <<ContactResults[1]>>
    ELSE ConfidentResults

\* FilterInterval keeping every time.
FilterInterval_KeepAll(ConfidentResults, MinimumMarkerInterval, FilteredTimes, i) ==
    [k \in 1..Len(ConfidentResults) |-> ConfidentResults[k].Time]

\* The loop over the time-sorted results from index i on: a time is kept
\* when it lies more than MinimumMarkerInterval after the last time kept.
RECURSIVE FilterInterval(_, _, _, _)
FilterInterval(ConfidentResults, MinimumMarkerInterval, FilteredTimes, i) ==
    IF i > Len(ConfidentResults) THEN FilteredTimes
    ELSE IF Len(FilteredTimes) = 0
            \/ RGt(RSub(ConfidentResults[i].Time, Last(FilteredTimes)), MinimumMarkerInterval)
         THEN FilterInterval(ConfidentResults, MinimumMarkerInterval,
                  Append(FilteredTimes, ConfidentResults[i].Time), i + 1)
         ELSE FilterInterval(ConfidentResults, MinimumMarkerInterval, FilteredTimes, i + 1)

\* The marker times ProcessAnimation can derive for one foot from the list
\* DetectFootContacts returned.
FilteredTimesOf(M, Results, S) ==
    UNION { { FilterInterval(ByTime, S.MinimumMarkerInterval, <<>>, 1) :
                ByTime \in SortByTime(
                    GuaranteeOne(
                        FilterByConfidence(
                            SelectTopN(ByConfidence, GetEffectiveMaxMarkersPerFoot(M, S)),
                            GetEffectiveMinimumConfidence(M, S)),
                        SelectTopN(ByConfidence, GetEffectiveMaxMarkersPerFoot(M, S)),
                        GetEffectiveGuaranteeMinimumOne(M, S))) } :
            ByConfidence \in SortByConfidence(ContactsOf(Results)) }

(***************************************************************************)
(* State.                                                                  *)
(*   Settings          the settings singleton                              *)
(*   AnimSequence, Foot, Preset   the arguments of DetectContacts          *)
(*   Method            the detector CreateDetector made                    *)
(*   VelocityDetector, SaliencyDetector   the velocity and the saliency    *)
(*                     detector CreateDetector makes                       *)
(*   Composite         the composite detector CreateDetector makes         *)
(*   Positions, TimeIntervals, Velocities   the projected positions, key   *)
(*                     times and speeds a leaf detector works on           *)
(*   Leaf, Clusters    the three lists MergeResults is given, and the      *)
(*                     clusters it forms                                   *)
(*   Results           the list the last call returned                     *)
(*   Calls             the number of calls made of the operation under     *)
(*                     study (DetectContacts, MergeResults, ...)           *)
(*   Modifier          the per-animation options of the animation modifier *)
(*   Markers           the times of the sync markers on the track under    *)
(*                     the foot's marker name, in the order added          *)
(*   CrossingTime      the time InterpolateCrossingTime last returned      *)
(***************************************************************************)
VARIABLES Settings, AnimSequence, Foot, Preset, Method, VelocityDetector,
          SaliencyDetector, Composite, Positions, TimeIntervals, Velocities,
          Leaf, Clusters, Results, Calls, Modifier, Markers, CrossingTime

vars == <<Settings, AnimSequence, Foot, Preset, Method, VelocityDetector,
          SaliencyDetector, Composite, Positions, TimeIntervals, Velocities,
          Leaf, Clusters, Results, Calls, Modifier, Markers, CrossingTime>>

NoAnim == [FrameRate |-> 30, Foot |-> <<>>, Pelvis |-> <<>>]

\* All sequences over S of length lo..hi.
SeqsOf(S, lo, hi) == UNION { [1..n -> S] : n \in lo..hi }

\* The key times of n keys at the given frame rate.
KeyTimes(n, FrameRate) == [k \in 1..n |-> Rat(k - 1, FrameRate)]

IsTimeOrdered(s) == \A i \in 1..(Len(s) - 1) : RLe(s[i].Time, s[i + 1].Time)

(***************************************************************************)
(* SpecFusion: MergeResults on the lists of three leaf detectors.          *)
(***************************************************************************)
MaxLeafResults == 3

\* Result times: multiples of 0.04 s.
FusionTimes == { Zero, <<1, 25>>, <<2, 25>>, <<3, 25>> }
LeafMethods == { "PelvisCrossing", "VelocityCurve", "Saliency" }

\* Confidences each leaf detector can give: a crossing at least 0.5, a
\* velocity minimum at least 0.1, a salient point any value from
\* SaliencyMinConfidence on.
FusionConfidences(M) ==
    CASE M = "PelvisCrossing" -> { <<3, 5>> }
      [] M = "VelocityCurve" -> { <<1, 10>>, <<4, 5>> }
      [] M = "Saliency" -> { Zero, <<3, 10>> }

\* The results the leaf detectors return. The velocity detector returns
\* contacts only; lift-offs are drawn for the pelvis crossing detector, and
\* the saliency results are drawn as contacts.
LeafResultsOf(M) ==
    { FFootContactResult(t, c, b, M) :
        t \in FusionTimes, c \in FusionConfidences(M),
        b \in IF M = "PelvisCrossing" THEN BOOLEAN ELSE {TRUE} }

\* The settings and weights MergeResults runs under: the defaults, and the
\* largest agreement bonus with weights far apart and a merge threshold
\* equal to the spacing of the result times.
FusionSettings ==
    { DefaultSettings,
      [DefaultSettings EXCEPT !.DetectorAgreementBonus = <<1, 2>>,
                              !.ResultMergeThreshold = <<1, 25>>,
                              !.CompositeWeights = [PelvisCrossingWeight |-> One,
                                                    VelocityCurveWeight |-> <<1, 10>>,
                                                    SaliencyWeight |-> <<1, 2>>]] }

\* The lists of at most n results of one detector, in the order the
\* detector returns them: by time.
RECURSIVE LeafLists(_, _)
LeafLists(M, n) ==
    IF n = 0 THEN { <<>> }
    ELSE LET shorter == LeafLists(M, n - 1)
         IN  shorter \cup
             { Append(q[1], q[2]) :
                 q \in { x \in shorter \X LeafResultsOf(M) :
                           /\ Len(x[1]) = n - 1
                           /\ (n = 1 \/ RLe(Last(x[1]).Time, x[2].Time)) } }

\* The example of two detectors agreeing to within 0.02 s.
ExampleLeaf ==
    { [Pelvis |-> <<FFootContactResult(<<1, 2>>, <<3, 5>>, b, "PelvisCrossing")>>,
       Velocity |-> <<FFootContactResult(<<13, 25>>, <<4, 5>>, TRUE, "VelocityCurve")>>,
       Saliency |-> <<>>] : b \in BOOLEAN }

LeafListTable ==
    [M \in LeafMethods |-> [n \in 0..MaxLeafResults |-> LeafLists(M, n)]]

\* The lists of the three detectors, MaxLeafResults results in all at most.
IsFusionLeaf(l) ==
    \E p \in LeafListTable["PelvisCrossing"][MaxLeafResults] :
      \E v \in LeafListTable["VelocityCurve"][MaxLeafResults - Len(p)] :
        \E s \in LeafListTable["Saliency"][MaxLeafResults - Len(p) - Len(v)] :
          l = [Pelvis |-> p, Velocity |-> v, Saliency |-> s]

InitFusion ==
    /\ Settings \in FusionSettings
    /\ AnimSequence = NoAnim
    /\ Foot = [BoneName |-> "foot_l"]
    /\ Preset = [PelvisBoneName |-> "pelvis", PrimaryMoveAxis |-> ForwardVector]
    /\ Method = "Composite"
    /\ VelocityDetector = NoOverride
    /\ SaliencyDetector = NoOverride
    /\ Composite = NewComposite(Settings.CompositeWeights)
    /\ Positions = <<>>
    /\ TimeIntervals = <<>>
    /\ Velocities = <<>>
    /\ (IsFusionLeaf(Leaf) \/ Leaf \in ExampleLeaf)
    /\ Clusters = <<>>
    /\ Results = <<>>
    /\ Calls = 0
    /\ Modifier = NewModifier
    /\ Markers = <<>>
    /\ CrossingTime = Zero

\* MergeResults(Leaf.Pelvis, Leaf.Velocity, Leaf.Saliency).
CallMergeResults ==
    /\ Calls = 0
    /\ LET AllResults == Leaf.Pelvis \o Leaf.Velocity \o Leaf.Saliency
       IN  \E Sorted \in SortByTime(AllResults) :
             /\ Clusters' = ClusterResultsByTime(Sorted, Settings.ResultMergeThreshold)
             /\ Results' = FinalResultsOf(Composite, Sorted, Settings)
    /\ Calls' = 1
    /\ UNCHANGED <<Modifier, Markers, CrossingTime>>
    /\ UNCHANGED <<Settings, AnimSequence, Foot, Preset, Method, VelocityDetector,
                   SaliencyDetector, Composite, Positions, TimeIntervals, Velocities, Leaf>>

NextFusion == CallMergeResults

SpecFusion == InitFusion /\ [][NextFusion]_vars

(***************************************************************************)
(* Properties of SpecFusion.                                               *)
(***************************************************************************)
Merged == Calls = 1

\* The combined weight the fusion gives a cluster member.
CombinedWeightOf(Result) ==
    RMul(GetWeightForMethod(Composite, Result.Source), Result.Confidence)

\* The example of section 8: PelvisCrossing at 0.50 s (weight 0.4,
\* confidence 0.6) and VelocityCurve at 0.52 s (weight 0.3, confidence 0.8)
\* under a merge threshold of 0.05 s.
IsExample ==
    /\ Merged
    /\ Leaf \in ExampleLeaf
    /\ Settings = DefaultSettings

C6_ClusterConfidence ==
    Merged =>
        /\ Len(Results) = Len(Clusters)
        /\ \A k \in 1..Len(Clusters) :
            Len(Clusters[k]) >= 2 =>
                LET n == Len(Clusters[k])
                    Confidences == { Clusters[k][i].Confidence : i \in 1..n }
                    Largest == CHOOSE c \in Confidences : \A d \in Confidences : RLe(d, c)
                    Raised == RAdd(Largest, RMul(R(n - 1), Settings.DetectorAgreementBonus))
                    Expected == IF RLt(Raised, Zero) THEN Zero
                                ELSE IF RGt(Raised, One) THEN One ELSE Raised
                IN  /\ Results[k].Confidence = Expected
                    /\ RGe(Results[k].Confidence, Largest)
                    /\ RLe(Results[k].Confidence, One)

\* A cluster of three whose fused confidence is above a member's and
\* below 1.
C6_Witness ==
    /\ Merged
    /\ \E k \in 1..Len(Clusters) :
        /\ Len(Clusters[k]) = 3
        /\ RLt(Results[k].Confidence, One)
        /\ \E i \in 1..3 : RLt(Clusters[k][i].Confidence, Results[k].Confidence)

\* The three results of the clustering example: times 0.00, 0.04 and 0.08,
\* merge threshold 0.05.
IsThreeSpread ==
    /\ Merged
    /\ Settings.ResultMergeThreshold = <<1, 20>>
    /\ LET AllResults == Leaf.Pelvis \o Leaf.Velocity \o Leaf.Saliency
       IN  /\ Len(AllResults) = 3
           /\ { AllResults[i].Time : i \in 1..3 } = { Zero, <<1, 25>>, <<2, 25>> }

\* C8 as stated: results at 0.00, 0.04 and 0.08 with merge threshold 0.05
\* form exactly one cluster of three.
C8_OneClusterOfThree ==
    IsThreeSpread => (Len(Clusters) = 1 /\ Len(Clusters[1]) = 3)

\* C8, amended: results at 0.00, 0.04 and 0.08 with merge threshold 0.05
\* form two clusters, the first of the results at 0.00 and 0.04 and the
\* second of the result at 0.08 alone, which lies more than the threshold
\* after the first member of the first cluster.
C8_TwoClusters ==
    IsThreeSpread =>
        /\ Len(Clusters) = 2
        /\ Len(Clusters[1]) = 2
        /\ Clusters[1][1].Time = Zero
        /\ Clusters[1][2].Time = <<1, 25>>
        /\ Len(Clusters[2]) = 1
        /\ Clusters[2][1].Time = <<2, 25>>
        /\ Len(Results) = 2
        /\ Results[2] = Clusters[2][1]

C8_Witness == IsThreeSpread /\ Len(Clusters) = 2

\* C9: the list the composite detector returns is ordered by
\* non-decreasing time.
C9_ResultsTimeOrdered == Merged => IsTimeOrdered(Results)

\* Two fused results, the lists handed over not being in time order when
\* concatenated.
C9_Witness ==
    /\ Merged
    /\ Len(Results) >= 2
    /\ ~IsTimeOrdered(Leaf.Pelvis \o Leaf.Velocity \o Leaf.Saliency)
    /\ \E k \in 1..Len(Clusters) : Len(Clusters[k]) >= 2

\* The members of all clusters, cluster after cluster.
RECURSIVE Flatten(_)
Flatten(ss) == IF Len(ss) = 0 THEN <<>> ELSE Head(ss) \o Flatten(Tail(ss))

\* Whether s and t hold the same elements the same number of times.
SameMembers(s, t) ==
    /\ Len(s) = Len(t)
    /\ \A i \in DOMAIN s :
         Cardinality({ j \in DOMAIN s : s[j] = s[i] }) =
         Cardinality({ j \in DOMAIN t : t[j] = s[i] })

\* C15: ClusterResultsByTime cuts the time-sorted list into contiguous,
\* non-empty runs anchored at their first member: every input result is
\* in exactly one cluster, every member lies at most MergeThreshold after
\* the first member of its cluster (a gap equal to the threshold still
\* joins), and the first member of the next cluster lies more than
\* MergeThreshold after the first member of the cluster before it.
C15_AnchoredClusters ==
    Merged =>
        LET AllResults == Leaf.Pelvis \o Leaf.Velocity \o Leaf.Saliency
            Joined == Flatten(Clusters)
        IN  /\ SameMembers(Joined, AllResults)
            /\ IsTimeOrdered(Joined)
            /\ \A k \in 1..Len(Clusters) :
                 /\ Len(Clusters[k]) >= 1
                 /\ \A i \in 1..Len(Clusters[k]) :
                      RLe(RSub(Clusters[k][i].Time, Clusters[k][1].Time),
                          Settings.ResultMergeThreshold)
            /\ \A k \in 1..(Len(Clusters) - 1) :
                 RGt(RSub(Clusters[k + 1][1].Time, Clusters[k][1].Time),
                     Settings.ResultMergeThreshold)

\* Two clusters, the first with a member exactly MergeThreshold after its
\* first member.
C15_Witness ==
    /\ Merged
    /\ Len(Clusters) >= 2
    /\ \E i \in 1..Len(Clusters[1]) :
         RSub(Clusters[1][i].Time, Clusters[1][1].Time) = Settings.ResultMergeThreshold

MemberWeights(Cluster) == [i \in 1..Len(Cluster) |-> CombinedWeightOf(Cluster[i])]
MemberTimes(Cluster) == [i \in 1..Len(Cluster) |-> Cluster[i].Time]
WeightedTimes(Cluster) ==
    [i \in 1..Len(Cluster) |-> RMul(Cluster[i].Time, CombinedWeightOf(Cluster[i]))]

OneDetector(Cluster) == \A i, j \in 1..Len(Cluster) : Cluster[i].Source = Cluster[j].Source

MaxSamples == 4

\* Projected positions (cm): either side of the pelvis plane, on it, and
\* closer to it than KINDA_SMALL_NUMBER.
ProjectedPool == { R(-1), <<-1, 40000>>, Zero, <<1, 20000>>, R(1), R(160) }

FrameRates == { 1, 30 }

CrossingSettings ==
    { [DefaultSettings EXCEPT !.PelvisConfidenceScale = c, !.LoopBoundaryConfidence = l] :
        c \in { R(3), R(50) }, l \in { Zero, <<7, 10>> } }

InitCrossing ==
    /\ Settings \in CrossingSettings
    /\ \E FrameRate \in FrameRates :
         /\ AnimSequence = [FrameRate |-> FrameRate, Foot |-> <<>>, Pelvis |-> <<>>]
         /\ Positions \in SeqsOf(ProjectedPool, 2, MaxSamples)
         /\ TimeIntervals = KeyTimes(Len(Positions), FrameRate)
    /\ Foot = [BoneName |-> "foot_l"]
    /\ Preset = [PelvisBoneName |-> "pelvis", PrimaryMoveAxis |-> ForwardVector]
    /\ Method = "PelvisCrossing"
    /\ VelocityDetector = NoOverride
    /\ SaliencyDetector = NoOverride
    /\ Composite = NewComposite(Settings.CompositeWeights)
    /\ Velocities = <<>>
    /\ Leaf = NoLeaf
    /\ Clusters = <<>>
    /\ Results = <<>>
    /\ Calls = 0
    /\ Modifier = NewModifier
    /\ Markers = <<>>
    /\ CrossingTime = Zero

\* DetectContacts from the projection on.
CallFindZeroCrossings ==
    /\ Calls = 0
    /\ Results' = FindZeroCrossings(Positions, TimeIntervals, Settings)
    /\ Calls' = 1
    /\ UNCHANGED <<Modifier, Markers, CrossingTime>>
    /\ UNCHANGED <<Settings, AnimSequence, Foot, Preset, Method, VelocityDetector,
                   SaliencyDetector, Composite, Positions, TimeIntervals, Velocities,
                   Leaf, Clusters>>

NextCrossing == CallFindZeroCrossings

SpecCrossing == InitCrossing /\ [][NextCrossing]_vars

(***************************************************************************)
(* Properties of SpecCrossing.                                             *)
(***************************************************************************)
\* The detector has run on two samples [a, b] with a * b < 0.
IsTwoSampleCrossing ==
    /\ Calls = 1
    /\ Method = "PelvisCrossing"
    /\ Len(Positions) = 2
    /\ RLt(RMul(Positions[1], Positions[2]), Zero)

\* The zero of the line through (Time1, a) and (Time2, b), a and b being of
\* opposite sign.
LinearZeroTime ==
    LET a == RAbs(Positions[1])
        b == RAbs(Positions[2])
    IN  RAdd(TimeIntervals[1],
             RMul(RSub(TimeIntervals[2], TimeIntervals[1]), RDiv(a, RAdd(a, b))))

\* clamp(|b - a| / ConfidenceScale, 0.5, 1.0).
ScaledChange ==
    LET x == RDiv(RAbs(RSub(Positions[2], Positions[1])), Settings.PelvisConfidenceScale)
    IN  IF RLt(x, <<1, 2>>) THEN <<1, 2>> ELSE IF RGt(x, One) THEN One ELSE x

\* C2 as stated: for two samples [a, b] with a * b < 0 the output is
\* exactly one result, at the linearly interpolated zero-crossing time with
\* confidence clamp(|b - a| / ConfidenceScale, 0.5, 1), a contact when
\* a < 0 < b and a lift-off when a > 0 > b.
C2_ExactlyOneCrossing ==
    IsTwoSampleCrossing =>
        /\ Len(Results) = 1
        /\ Results[1].Time = LinearZeroTime
        /\ Results[1].Confidence = ScaledChange
        /\ Results[1].bIsContact = RLt(Positions[1], Zero)

\* C2, amended: for two samples [a, b] with a * b < 0 the output is exactly
\* two results.  The first is the crossing of the pair, with confidence
\* clamp(|b - a| / ConfidenceScale, 0.5, 1), a contact when a < 0 < b and a
\* lift-off when a > 0 > b, placed at the linearly interpolated
\* zero-crossing time, or at the midpoint of the two sample times when
\* |b - a| < KINDA_SMALL_NUMBER.  The second is the loop-boundary crossing:
\* at the last sample's time, with confidence LoopBoundaryConfidence and
\* the opposite classification.  [-1, 1] at times [0, 1] gives a contact at
\* 0.5 and a lift-off at 1; [1, -1] a lift-off at 0.5 and a contact at 1.
C2_CrossingAndLoopBoundary ==
    IsTwoSampleCrossing =>
        /\ Len(Results) = 2
        /\ Results[1].Time =
               IF RLt(RAbs(RSub(Positions[2], Positions[1])), KINDA_SMALL_NUMBER)
               THEN RDiv(RAdd(TimeIntervals[1], TimeIntervals[2]), R(2))
               ELSE LinearZeroTime
        /\ Results[1].Confidence = ScaledChange
        /\ Results[1].bIsContact = RLt(Positions[1], Zero)
        /\ Results[1].Source = "PelvisCrossing"
        /\ Results[2].Time = TimeIntervals[2]
        /\ Results[2].Confidence = Settings.LoopBoundaryConfidence
        /\ Results[2].bIsContact = RGt(Positions[1], Zero)
        /\ Results[2].Source = "PelvisCrossing"
        /\ (Positions = <<R(-1), R(1)>> /\ TimeIntervals = <<Zero, One>>) =>
               (Results[1].Time = <<1, 2>> /\ Results[1].bIsContact)
        /\ (Positions = <<R(1), R(-1)>> /\ TimeIntervals = <<Zero, One>>) =>
               (Results[1].Time = <<1, 2>> /\ ~Results[1].bIsContact)

\* [-1, 1] at times [0, 1] has been analysed.
C2_Witness ==
    /\ IsTwoSampleCrossing
    /\ Positions = <<R(-1), R(1)>>
    /\ TimeIntervals = <<Zero, One>>
    /\ Len(Results) = 2
    /\ Results[1].bIsContact
    /\ ~Results[2].bIsContact

\* The later samples of the consecutive pairs whose projected positions
\* multiply to less than 0, and the k-th of them.
CrossingPairs == { i \in 2..Len(Positions) : RLt(RMul(Positions[i - 1], Positions[i]), Zero) }
CrossingPair(k) ==
    CHOOSE i \in CrossingPairs : Cardinality({ j \in CrossingPairs : j < i }) = k - 1

\* The number of results for the loop boundary.
LoopBoundaryResults ==
    IF RLt(RMul(Positions[1], Last(Positions)), Zero) THEN 1 ELSE 0

\* C20: the pelvis crossing detector returns one result for each
\* consecutive pair of samples whose projected positions multiply to less
\* than 0, in the order of the pairs, and none for any other pair: a pair
\* with a position of exactly 0 gives no result.  The result of a pair
\* lies between the times of its two samples, and is a contact exactly
\* when the positions go from negative to positive and a lift-off exactly
\* when they go from positive to negative.  The only other result is the
\* one for the loop boundary.
C20_OneResultPerSignChange ==
    Calls = 1 =>
        /\ Len(Results) = Cardinality(CrossingPairs) + LoopBoundaryResults
        /\ \A i \in CrossingPairs : Positions[i - 1] # Zero /\ Positions[i] # Zero
        /\ \A i \in 2..Len(Positions) :
             (Positions[i - 1] = Zero \/ Positions[i] = Zero) => i \notin CrossingPairs
        /\ \A k \in 1..Cardinality(CrossingPairs) :
             LET i == CrossingPair(k)
             IN  /\ RLe(TimeIntervals[i - 1], Results[k].Time)
                 /\ RLe(Results[k].Time, TimeIntervals[i])
                 /\ Results[k].Source = "PelvisCrossing"
                 /\ Results[k].bIsContact <=>
                        (RLt(Positions[i - 1], Zero) /\ RGt(Positions[i], Zero))
                 /\ ~Results[k].bIsContact <=>
                        (RGt(Positions[i - 1], Zero) /\ RLt(Positions[i], Zero))

\* Three samples have been analysed: the first pair touches the pelvis
\* plane without crossing it and gives nothing, the second crosses it from
\* behind and gives the only result, a contact.
C20_Witness ==
    /\ Calls = 1
    /\ Len(Positions) = 3
    /\ Positions[1] = Zero
    /\ RLt(Positions[2], Zero)
    /\ RGt(Positions[3], Zero)
    /\ Len(Results) = 1
    /\ Results[1].bIsContact

\* The results that follow those of the consecutive pairs.
AfterPairs == SubSeq(Results, Cardinality(CrossingPairs) + 1, Len(Results))

\* The last and the first position multiply to less than 0.
WrapsAround == RLt(RMul(Last(Positions), Positions[1]), Zero)

\* C22: after the results of the consecutive pairs the pelvis crossing
\* detector appends exactly one result when the last and the first
\* position multiply to less than 0, and none otherwise.  That result is
\* at the time of the last sample, has the confidence
\* LoopBoundaryConfidence whatever the distance between the two positions,
\* and is a contact exactly when the last position is negative and the
\* first positive.
C22_LoopBoundaryResult ==
    Calls = 1 =>
        /\ WrapsAround => Len(AfterPairs) = 1
        /\ ~WrapsAround => Len(AfterPairs) = 0
        /\ WrapsAround =>
             /\ Last(Results).Time = Last(TimeIntervals)
             /\ Last(Results).Confidence = Settings.LoopBoundaryConfidence
             /\ Last(Results).bIsContact <=>
                    (RLt(Last(Positions), Zero) /\ RGt(Positions[1], Zero))
             /\ Last(Results).Source = "PelvisCrossing"

\* Three samples ending 161 cm from where they start, across the pelvis
\* plane and without a crossing in the last pair, have been analysed: the
\* result for the loop boundary is a contact of confidence 0, where a
\* crossing of the scan over that distance would have confidence 1.
C22_Witness ==
    /\ Calls = 1
    /\ Len(Positions) = 3
    /\ Positions[1] = R(160)
    /\ Positions[3] = R(-1)
    /\ RLt(Positions[2], Zero)
    /\ Settings.LoopBoundaryConfidence = Zero
    /\ Len(Results) = 2
    /\ Last(Results).bIsContact
    /\ Last(Results).Confidence = Zero
    /\ Results[1].Confidence = One

\* No projected position is exactly zero.
NoPositionZero == \A i \in 1..Len(Positions) : Positions[i] # Zero

\* The numbers of contacts and of lift-offs among the results.
ContactCount == Cardinality({ k \in 1..Len(Results) : Results[k].bIsContact })
LiftOffCount == Cardinality({ k \in 1..Len(Results) : ~Results[k].bIsContact })

\* C28: when no projected position is exactly zero, the pelvis crossing
\* detector returns as many contacts as lift-offs, the result for the loop
\* boundary included; the results of the consecutive pairs alternate
\* between contact and lift-off; and the result for the loop boundary is
\* there exactly when the number of results of consecutive pairs is odd.
C28_ContactsBalanceLiftOffs ==
    (Calls = 1 /\ NoPositionZero) =>
        /\ ContactCount = LiftOffCount
        /\ \A k \in 1..(Cardinality(CrossingPairs) - 1) :
             Results[k].bIsContact # Results[k + 1].bIsContact
        /\ Len(Results) \in { Cardinality(CrossingPairs), Cardinality(CrossingPairs) + 1 }
        /\ Len(Results) = Cardinality(CrossingPairs) + 1
             <=> Cardinality(CrossingPairs) % 2 = 1

\* Four samples on alternating sides of the pelvis plane have been
\* analysed: contact, lift-off and contact of the three pairs, and the
\* lift-off of the loop boundary.
C28_Witness ==
    /\ Calls = 1
    /\ NoPositionZero
    /\ Len(Positions) = 4
    /\ Cardinality(CrossingPairs) = 3
    /\ Len(Results) = 4
    /\ Results[1].bIsContact
    /\ ~Results[2].bIsContact
    /\ Results[3].bIsContact
    /\ ~Results[4].bIsContact

(***************************************************************************)
(* SpecMinima: the velocity detector from the speeds on.                   *)
(***************************************************************************)
MaxSpeeds == 5

\* Speeds (cm/s): at rest, below KINDA_SMALL_NUMBER, below, at and above
\* the default threshold.
SpeedPool == { Zero, <<1, 20000>>, R(1), R(5), R(10) }

\* The distances |P[i+1] - P[i]| some trajectory can have after key i, the
\* distance before it lying in lo..hi and the central difference at key i
\* being Speed: the third side of a triangle with sides e and 2 * Speed.
NextSideRange(lo, hi, Speed) ==
    LET c == RMul(R(2), Speed)
    IN  [lo |-> IF RLe(lo, c) /\ RLe(c, hi) THEN Zero
                ELSE RMin(RAbs(RSub(c, lo)), RAbs(RSub(c, hi))),
         hi |-> RAdd(hi, c)]

RECURSIVE SideRangeAt(_, _)
SideRangeAt(Speeds, i) ==
    IF i = 1 THEN [lo |-> Speeds[1], hi |-> Speeds[1]]
    ELSE LET r == SideRangeAt(Speeds, i - 1)
         IN  NextSideRange(r.lo, r.hi, Speeds[i])

\* Speeds are the speeds CalculateVelocities gives for some trajectory
\* sampled at evenly spaced times: the forward difference at the first
\* key, central differences inside, the backward difference at the last.
IsSpeedProfile(Speeds) ==
    LET r == SideRangeAt(Speeds, Len(Speeds) - 1)
    IN  RLe(r.lo, Last(Speeds)) /\ RLe(Last(Speeds), r.hi)

MinimaDetectors ==
    { NoOverride } \cup
    { [bHasThresholdOverride |-> TRUE, ThresholdOverride |-> t] : t \in { R(1), R(11) } }

InitMinima ==
    /\ Settings \in { [DefaultSettings EXCEPT !.VelocityDefaultConfidence = c] :
                        c \in { Zero, <<1, 2>> } }
    /\ AnimSequence = NoAnim
    /\ Foot = [BoneName |-> "foot_l"]
    /\ Preset = [PelvisBoneName |-> "pelvis", PrimaryMoveAxis |-> ForwardVector]
    /\ Method = "VelocityCurve"
    /\ VelocityDetector \in MinimaDetectors
    /\ SaliencyDetector = NoOverride
    /\ Composite = NewComposite(Settings.CompositeWeights)
    /\ Positions = <<>>
    /\ Velocities \in { v \in SeqsOf(SpeedPool, 3, MaxSpeeds) : IsSpeedProfile(v) }
    /\ TimeIntervals = KeyTimes(Len(Velocities), AnimSequence.FrameRate)
    /\ Leaf = NoLeaf
    /\ Clusters = <<>>
    /\ Results = <<>>
    /\ Calls = 0
    /\ Modifier = NewModifier
    /\ Markers = <<>>
    /\ CrossingTime = Zero

\* DetectContacts from the velocities on.
CallFindLocalMinima ==
    /\ Calls = 0
    /\ Results' = VelocityMinimaResults(Velocities, TimeIntervals,
                      VelocityThresholdOf(VelocityDetector, Settings), Settings)
    /\ Calls' = 1
    /\ UNCHANGED <<Modifier, Markers, CrossingTime>>
    /\ UNCHANGED <<Settings, AnimSequence, Foot, Preset, Method, VelocityDetector,
                   SaliencyDetector, Composite, Positions, TimeIntervals, Velocities,
                   Leaf, Clusters>>

NextMinima == CallFindLocalMinima

SpecMinima == InitMinima /\ [][NextMinima]_vars

(***************************************************************************)
(* Properties of SpecMinima.                                               *)
(***************************************************************************)
\* The velocity detector has run on the speeds.
MinimaFound == Calls = 1 /\ Method = "VelocityCurve" /\ Len(Velocities) >= 3

\* C3: an interior sample whose speed is strictly lower than both
\* neighbouring speeds and below the threshold is reported exactly once,
\* as a contact; every result of the detector is a contact; the speeds
\* [10, 1, 10] with threshold 5 give exactly one result, at index 1 (the
\* second sample).
C3_StrictMinimaAreContacts ==
    MinimaFound =>
        LET Threshold == VelocityThresholdOf(VelocityDetector, Settings)
        IN  /\ \A i \in 2..(Len(Velocities) - 1) :
                  ( /\ RLt(Velocities[i], Velocities[i - 1])
                    /\ RLt(Velocities[i], Velocities[i + 1])
                    /\ RLt(Velocities[i], Threshold) ) =>
                  /\ Cardinality({ k \in 1..Len(Results) :
                                     Results[k].Time = TimeIntervals[i] }) = 1
                  /\ \A k \in 1..Len(Results) :
                         Results[k].Time = TimeIntervals[i] => Results[k].bIsContact
            /\ \A k \in 1..Len(Results) :
                  Results[k].bIsContact /\ Results[k].Source = "VelocityCurve"
            /\ (Velocities = <<R(10), R(1), R(10)>> /\ Threshold = R(5)) =>
                  (Len(Results) = 1 /\ Results[1].Time = TimeIntervals[2])

\* [10, 1, 10] has been analysed under threshold 5.
C3_Witness ==
    /\ MinimaFound
    /\ Velocities = <<R(10), R(1), R(10)>>
    /\ VelocityThresholdOf(VelocityDetector, Settings) = R(5)
    /\ Len(Results) = 1
    /\ Results[1].bIsContact

\* The number of results at the time of sample i.
ReportedTimes(i) ==
    Cardinality({ k \in 1..Len(Results) : Results[k].Time = TimeIntervals[i] })

\* Sample i (the code's index i - 1) is a minimum by the rule of C24.
IsRuleMinimum(i) ==
    LET Threshold == VelocityThresholdOf(VelocityDetector, Settings)
        N == Len(Velocities)
    IN  /\ RLt(Velocities[i], Threshold)
        /\ IF i = 1 THEN RLt(Velocities[1], Velocities[2])
           ELSE IF i = N THEN RLt(Velocities[N], Velocities[N - 1])
           ELSE \/ RLe(Velocities[i], Velocities[i - 1]) /\ RLt(Velocities[i], Velocities[i + 1])
                \/ RLt(Velocities[i], Velocities[i - 1]) /\ RLe(Velocities[i], Velocities[i + 1])

\* The results are those of the samples that are minima by the rule, one
\* each and no other.
MinimaByRule ==
    /\ \A i \in 1..Len(Velocities) : ReportedTimes(i) = IF IsRuleMinimum(i) THEN 1 ELSE 0
    /\ Len(Results) = Cardinality({ i \in 1..Len(Velocities) : IsRuleMinimum(i) })

\* Samples a..b are a flat run of lowest speeds: equal speeds below the
\* threshold, with a higher speed before the run and after it wherever
\* there is a sample.
IsLowestRun(a, b) ==
    /\ a <= b
    /\ \A i \in a..b : Velocities[i] = Velocities[a]
    /\ RLt(Velocities[a], VelocityThresholdOf(VelocityDetector, Settings))
    /\ a > 1 => RGt(Velocities[a - 1], Velocities[a])
    /\ b < Len(Velocities) => RGt(Velocities[b + 1], Velocities[b])

\* C24 as stated: the results are those of the minima by the rule, and
\* every flat run of lowest speeds is reported at its first and at its
\* last sample and at no sample strictly inside.
C24_EveryRunAtBothEnds ==
    MinimaFound =>
        /\ MinimaByRule
        /\ \A a \in 1..Len(Velocities), b \in 1..Len(Velocities) :
             IsLowestRun(a, b) =>
                 /\ ReportedTimes(a) = 1
                 /\ ReportedTimes(b) = 1
                 /\ \A i \in (a + 1)..(b - 1) : ReportedTimes(i) = 0

\* C24, amended: for three or more speeds the results are exactly those
\* of the samples i with v[i] below the threshold and, for an interior
\* sample, v[i] <= v[i-1] and v[i] < v[i+1], or v[i] < v[i-1] and
\* v[i] <= v[i+1]; for the first sample, v[0] < v[1]; for the last,
\* v[N-1] < v[N-2]; each once.  So a flat run of lowest speeds that lies
\* between two higher speeds is reported at its first and at its last
\* sample and at no sample strictly inside; a flat run of two or more
\* samples that begins at the first sample is not reported at the first
\* sample, and one that ends at the last sample is not reported at the
\* last.
C24_MinimaByRule ==
    MinimaFound =>
        /\ MinimaByRule
        /\ \A a \in 1..Len(Velocities), b \in 1..Len(Velocities) :
             IsLowestRun(a, b) =>
                 /\ (a > 1 /\ b < Len(Velocities)) =>
                        /\ ReportedTimes(a) = 1
                        /\ ReportedTimes(b) = 1
                 /\ \A i \in (a + 1)..(b - 1) : ReportedTimes(i) = 0
                 /\ (a = 1 /\ a < b) => ReportedTimes(a) = 0
                 /\ (b = Len(Velocities) /\ a < b) => ReportedTimes(b) = 0

\* [10, 1, 1, 1, 10] has been analysed under threshold 5: the run of three
\* is reported at its first and last sample.
C24_Witness ==
    /\ MinimaFound
    /\ Velocities = <<R(10), R(1), R(1), R(1), R(10)>>
    /\ VelocityThresholdOf(VelocityDetector, Settings) = R(5)
    /\ Len(Results) = 2
    /\ Results[1].Time = TimeIntervals[2]
    /\ Results[2].Time = TimeIntervals[4]

(***************************************************************************)
(* Spec: a detector made by CreateDetector, given its threshold overrides  *)
(* and then run on an animation, as DetectFootContacts does, and run       *)
(* again.                                                                  *)
(***************************************************************************)
MaxKeys == 4
MaxCalls == 2

\* Foot locations (cm) of a foot swinging forward: behind and ahead of the
\* pelvis on the ground, and lifted in between.
SwingPool == { <<-4, 0, 0>>, <<0, 0, 3>>, <<4, 0, 0>> }

\* Foot locations of a foot sliding along the ground line under the pelvis.
SlidePool == { <<-4, 0, 0>>, <<0, 0, 0>>, <<4, 0, 0>> }

\* Foot locations of a foot stepping sideways.
SidewaysPool == { <<0, -4, 0>>, <<0, 4, 0>> }

Trajectories ==
    SeqsOf(SwingPool, 0, MaxKeys) \cup SeqsOf(SlidePool, 1, MaxKeys)
        \cup SeqsOf(SidewaysPool, 2, MaxKeys)

\* The animations: 30 keys a second, the pelvis at the origin.
Animations ==
    { [FrameRate |-> 30, Foot |-> t, Pelvis |-> [k \in 1..Len(t) |-> <<0, 0, 0>>]] :
        t \in Trajectories }

\* The settings at the low end of their ranges, at their defaults and at
\* the high end.
SettingsProfiles ==
    { [PelvisConfidenceScale |-> R(1),
       LoopBoundaryConfidence |-> Zero,
       VelocityMinimumThreshold |-> <<1, 10>>,
       VelocityDefaultConfidence |-> Zero,
       SaliencyWindowSize |-> <<1, 100>>,
       SaliencyThreshold |-> Zero,
       SaliencyDefaultConfidence |-> Zero,
       SaliencyMinConfidence |-> Zero,
       ResultMergeThreshold |-> <<1, 1000>>,
       DetectorAgreementBonus |-> Zero,
       CompositeWeights |-> [PelvisCrossingWeight |-> Zero,
                             VelocityCurveWeight |-> One,
                             SaliencyWeight |-> <<1, 10>>]],
      DefaultSettings,
      [PelvisConfidenceScale |-> R(200),
       LoopBoundaryConfidence |-> One,
       VelocityMinimumThreshold |-> R(100),
       VelocityDefaultConfidence |-> One,
       SaliencyWindowSize |-> One,
       SaliencyThreshold |-> One,
       SaliencyDefaultConfidence |-> One,
       SaliencyMinConfidence |-> One,
       ResultMergeThreshold |-> <<1, 2>>,
       DetectorAgreementBonus |-> <<1, 2>>,
       CompositeWeights |-> [PelvisCrossingWeight |-> One,
                             VelocityCurveWeight |-> One,
                             SaliencyWeight |-> One]] }

\* Settings for the composite detector alone: the weight of the velocity
\* detector at KINDA_SMALL_NUMBER exactly, that of the saliency detector 0.
GatedProfiles ==
    { [DefaultSettings EXCEPT !.CompositeWeights = [PelvisCrossingWeight |-> <<2, 5>>,
                                                    VelocityCurveWeight |-> KINDA_SMALL_NUMBER,
                                                    SaliencyWeight |-> Zero]] }

Methods == { "PelvisCrossing", "VelocityCurve", "Saliency", "Composite" }

\* The per-animation overrides of the modifier.
VelocityThresholdOverrides == { R(200) }
SaliencyThresholdOverrides == { Zero }

Init ==
    /\ Method \in Methods
    /\ Settings \in SettingsProfiles \cup (IF Method = "Composite" THEN GatedProfiles ELSE {})
    /\ AnimSequence \in Animations
    /\ Foot \in { [BoneName |-> n] : n \in { "foot_l", NAME_None } }
    /\ Preset \in { [PelvisBoneName |-> n, PrimaryMoveAxis |-> ForwardVector] :
                    n \in { "pelvis", NAME_None } }
    /\ VelocityDetector = NoOverride
    /\ SaliencyDetector = NoOverride
    /\ Composite = NewComposite(Settings.CompositeWeights)
    /\ Positions = <<>>
    /\ TimeIntervals = <<>>
    /\ Velocities = <<>>
    /\ Leaf = NoLeaf
    /\ Clusters = <<>>
    /\ Results = <<>>
    /\ Calls = 0
    /\ Modifier = NewModifier
    /\ Markers = <<>>
    /\ CrossingTime = Zero

\* SetVelocityThreshold forwarded by the composite detector to both inner
\* detectors.
SetVelocityThreshold_Both(Threshold) ==
    /\ Calls = 0
    /\ LET Overridden == [bHasThresholdOverride |-> TRUE, ThresholdOverride |-> Threshold]
       IN  CASE Method = "VelocityCurve" ->
                  VelocityDetector' = Overridden /\ UNCHANGED Composite
             [] Method = "Composite" ->
                  /\ Composite' = [Composite EXCEPT !.VelocityDetector = Overridden,
                                                    !.SaliencyDetector = Overridden]
                  /\ UNCHANGED VelocityDetector
             [] OTHER -> UNCHANGED <<VelocityDetector, Composite>>
    /\ UNCHANGED <<Modifier, Markers, CrossingTime>>
    /\ UNCHANGED <<Settings, AnimSequence, Foot, Preset, Method, SaliencyDetector,
                   Positions, TimeIntervals, Velocities, Leaf, Clusters, Results, Calls>>

\* Detector->SetVelocityThreshold(Threshold), before the detector is used.
SetVelocityThreshold(Threshold) ==
    /\ Calls = 0
    /\ LET Overridden == [bHasThresholdOverride |-> TRUE, ThresholdOverride |-> Threshold]
       IN  CASE Method = "VelocityCurve" ->
                  VelocityDetector' = Overridden /\ UNCHANGED Composite
             [] Method = "Composite" ->
                  /\ Composite' = [Composite EXCEPT !.VelocityDetector = Overridden]
                  /\ UNCHANGED VelocityDetector
             [] OTHER -> UNCHANGED <<VelocityDetector, Composite>>
    /\ UNCHANGED <<Modifier, Markers, CrossingTime>>
    /\ UNCHANGED <<Settings, AnimSequence, Foot, Preset, Method, SaliencyDetector,
                   Positions, TimeIntervals, Velocities, Leaf, Clusters, Results, Calls>>

\* Detector->SetSaliencyThreshold(Threshold), before the detector is used.
SetSaliencyThreshold(Threshold) ==
    /\ Calls = 0
    /\ LET Overridden == [bHasThresholdOverride |-> TRUE, ThresholdOverride |-> Threshold]
       IN  CASE Method = "Saliency" ->
                  SaliencyDetector' = Overridden /\ UNCHANGED Composite
             [] Method = "Composite" ->
                  /\ Composite' = [Composite EXCEPT !.SaliencyDetector = Overridden]
                  /\ UNCHANGED SaliencyDetector
             [] OTHER -> UNCHANGED <<SaliencyDetector, Composite>>
    /\ UNCHANGED <<Modifier, Markers, CrossingTime>>
    /\ UNCHANGED <<Settings, AnimSequence, Foot, Preset, Method, VelocityDetector,
                   Positions, TimeIntervals, Velocities, Leaf, Clusters, Results, Calls>>

\* FPelvisCrossingDetector::DetectContacts(AnimSequence, Foot, Preset).
CallPelvisDetectContacts ==
    /\ Method = "PelvisCrossing"
    /\ Calls < MaxCalls
    /\ Results' = PelvisDetectContacts(AnimSequence, Foot, Preset, Settings)
    /\ Calls' = Calls + 1
    /\ UNCHANGED <<Modifier, Markers, CrossingTime>>
    /\ UNCHANGED <<Settings, AnimSequence, Foot, Preset, Method, VelocityDetector,
                   SaliencyDetector, Composite, Positions, TimeIntervals, Velocities,
                   Leaf, Clusters>>

\* CallVelocityDetectContacts with a result list that outlives the call.
CallVelocityDetectContacts_Appending ==
    /\ Method = "VelocityCurve"
    /\ Calls < MaxCalls
    /\ Results' = Results \o VelocityDetectContacts(VelocityDetector, AnimSequence, Foot,
                                                    Preset, Settings)
    /\ Calls' = Calls + 1
    /\ UNCHANGED <<Modifier, Markers, CrossingTime>>
    /\ UNCHANGED <<Settings, AnimSequence, Foot, Preset, Method, VelocityDetector,
                   SaliencyDetector, Composite, Positions, TimeIntervals, Velocities,
                   Leaf, Clusters>>

\* FVelocityCurveDetector::DetectContacts(AnimSequence, Foot, Preset).
CallVelocityDetectContacts ==
    /\ Method = "VelocityCurve"
    /\ Calls < MaxCalls
    /\ Results' = VelocityDetectContacts(VelocityDetector, AnimSequence, Foot, Preset,
                                         Settings)
    /\ Calls' = Calls + 1
    /\ UNCHANGED <<Modifier, Markers, CrossingTime>>
    /\ UNCHANGED <<Settings, AnimSequence, Foot, Preset, Method, VelocityDetector,
                   SaliencyDetector, Composite, Positions, TimeIntervals, Velocities,
                   Leaf, Clusters>>

\* FSaliencyDetector::DetectContacts(AnimSequence, Foot, Preset).
CallSaliencyDetectContacts ==
    /\ Method = "Saliency"
    /\ Calls < MaxCalls
    /\ Results' = SaliencyDetectContacts(SaliencyDetector, AnimSequence, Foot, Preset,
                                         Settings)
    /\ Calls' = Calls + 1
    /\ UNCHANGED <<Modifier, Markers, CrossingTime>>
    /\ UNCHANGED <<Settings, AnimSequence, Foot, Preset, Method, VelocityDetector,
                   SaliencyDetector, Composite, Positions, TimeIntervals, Velocities,
                   Leaf, Clusters>>

\* FCompositeDetector::DetectContacts(AnimSequence, Foot, Preset).
CallCompositeDetectContacts ==
    /\ Method = "Composite"
    /\ Calls < MaxCalls
    /\ Leaf' = CompositeLeafResults(Composite, AnimSequence, Foot, Preset, Settings)
    /\ \E Sorted \in SortByTime(Leaf'.Pelvis \o Leaf'.Velocity \o Leaf'.Saliency) :
         /\ Clusters' = ClusterResultsByTime(Sorted, Settings.ResultMergeThreshold)
         /\ Results' = FinalResultsOf(Composite, Sorted, Settings)
    /\ Calls' = Calls + 1
    /\ UNCHANGED <<Modifier, Markers, CrossingTime>>
    /\ UNCHANGED <<Settings, AnimSequence, Foot, Preset, Method, VelocityDetector,
                   SaliencyDetector, Composite, Positions, TimeIntervals, Velocities>>

Next ==
    \/ \E Threshold \in VelocityThresholdOverrides : SetVelocityThreshold(Threshold)
    \/ \E Threshold \in SaliencyThresholdOverrides : SetSaliencyThreshold(Threshold)
    \/ CallPelvisDetectContacts
    \/ CallVelocityDetectContacts
    \/ CallSaliencyDetectContacts
    \/ CallCompositeDetectContacts

Spec == Init /\ [][Next]_vars

(***************************************************************************)
(* Properties of Spec.                                                     *)
(***************************************************************************)
\* DetectContacts has returned.
Detected == Calls >= 1

\* C1: a leaf detector returns the empty list when the animation has fewer
\* keys than its minimum (2 for PelvisCrossing, 3 for VelocityCurve, 4 for
\* Saliency), when the foot bone name is missing and, for PelvisCrossing,
\* when the pelvis bone name is missing.
C1_TooShortOrUnnamedGivesNothing ==
    Detected =>
        /\ (Method = "PelvisCrossing"
              /\ (GetNumKeys(AnimSequence) < 2 \/ Foot.BoneName = NAME_None
                    \/ Preset.PelvisBoneName = NAME_None)) => Results = <<>>
        /\ (Method = "VelocityCurve"
              /\ (GetNumKeys(AnimSequence) < 3 \/ Foot.BoneName = NAME_None)) => Results = <<>>
        /\ (Method = "Saliency"
              /\ (GetNumKeys(AnimSequence) < 4 \/ Foot.BoneName = NAME_None)) => Results = <<>>

\* The pelvis detector has returned nothing for a crossing trajectory
\* whose preset names no pelvis bone.
C1_Witness ==
    /\ Detected
    /\ Method = "PelvisCrossing"
    /\ Foot.BoneName # NAME_None
    /\ Preset.PelvisBoneName = NAME_None
    /\ AnimSequence.Foot = << <<-4, 0, 0>>, <<4, 0, 0>> >>
    /\ Results = <<>>

\* All the points of the trajectory lie on one line.
IsCollinear(Trajectory) ==
    \A i, j, k \in 1..Len(Trajectory) :
        CrossProduct(VSub(Trajectory[j], Trajectory[i]),
                     VSub(Trajectory[k], Trajectory[i])) = <<0, 0, 0>>

\* C4: on a trajectory whose samples are all collinear the saliency
\* detector returns no results, whatever the saliency threshold (setting
\* or override) and the window size.
C4_StraightLineHasNoSalientPoint ==
    (Detected /\ Method = "Saliency" /\ IsCollinear(AnimSequence.Foot)) => Results = <<>>

\* The saliency detector has analysed four keys over three distinct points
\* of a line.
C4_Witness ==
    /\ Detected
    /\ Method = "Saliency"
    /\ Foot.BoneName # NAME_None
    /\ GetNumKeys(AnimSequence) >= 4
    /\ IsCollinear(AnimSequence.Foot)
    /\ Cardinality({ AnimSequence.Foot[i] : i \in 1..GetNumKeys(AnimSequence) }) = 3
    /\ SaliencyThresholdOf(SaliencyDetector, Settings) = Zero
    /\ Results = <<>>

WithinKeyTimes(List) ==
    \A k \in 1..Len(List) :
        /\ RLe(GetTimeAtFrame(AnimSequence, 0), List[k].Time)
        /\ RLe(List[k].Time, GetTimeAtFrame(AnimSequence, GetNumKeys(AnimSequence) - 1))

C12_UnweightedDetectorNotRun ==
    (Detected /\ Method = "Composite") =>
        LET Off(Weight) == RLe(Weight, KINDA_SMALL_NUMBER)
            Ran == [Pelvis |-> IF Off(Composite.PelvisCrossingWeight) THEN <<>>
                               ELSE PelvisDetectContacts(AnimSequence, Foot, Preset, Settings),
                    Velocity |-> IF Off(Composite.VelocityCurveWeight) THEN <<>>
                                 ELSE VelocityDetectContacts(Composite.VelocityDetector,
                                          AnimSequence, Foot, Preset, Settings),
                    Saliency |-> IF Off(Composite.SaliencyWeight) THEN <<>>
                                 ELSE SaliencyDetectContacts(Composite.SaliencyDetector,
                                          AnimSequence, Foot, Preset, Settings)]
            Members == Flatten(Clusters)
        IN  /\ Leaf = Ran
            /\ SameMembers(Members, Ran.Pelvis \o Ran.Velocity \o Ran.Saliency)
            /\ \A i \in 1..Len(Members) :
                 /\ Off(Composite.PelvisCrossingWeight) => Members[i].Source # "PelvisCrossing"
                 /\ Off(Composite.VelocityCurveWeight) => Members[i].Source # "VelocityCurve"
                 /\ Off(Composite.SaliencyWeight) => Members[i].Source # "Saliency"
            /\ Results \in MergeResults(Composite, Ran.Pelvis, Ran.Velocity, Ran.Saliency,
                                        Settings)

\* The composite detector has returned the results of the pelvis detector
\* alone, the velocity detector (weight KINDA_SMALL_NUMBER) and the
\* saliency detector (weight 0) each having results to give for the
\* animation.
C12_Witness ==
    /\ Detected
    /\ Method = "Composite"
    /\ Composite.VelocityCurveWeight = KINDA_SMALL_NUMBER
    /\ Composite.SaliencyWeight = Zero
    /\ VelocityDetectContacts(Composite.VelocityDetector, AnimSequence, Foot, Preset,
                              Settings) # <<>>
    /\ SaliencyDetectContacts(Composite.SaliencyDetector, AnimSequence, Foot, Preset,
                              Settings) # <<>>
    /\ Leaf.Velocity = <<>>
    /\ Leaf.Saliency = <<>>
    /\ Results # <<>>
    /\ Results = Leaf.Pelvis

\* C16: the composite detector passes the single member of a cluster of
\* one through unchanged in time, confidence, classification and source,
\* and tags the result of every cluster of two or more members Composite;
\* a leaf detector tags its results with its own method, never Composite.
C16_PassThroughAndTags ==
    Detected =>
        /\ Method = "Composite" =>
             /\ Len(Results) = Len(Clusters)
             /\ \A k \in 1..Len(Clusters) :
                  /\ Len(Clusters[k]) = 1 =>
                       /\ Results[k].Time = Clusters[k][1].Time
                       /\ Results[k].Confidence = Clusters[k][1].Confidence
                       /\ Results[k].bIsContact = Clusters[k][1].bIsContact
                       /\ Results[k].Source = Clusters[k][1].Source
                       /\ Results[k].Source # "Composite"
                  /\ Len(Clusters[k]) >= 2 => Results[k].Source = "Composite"
             /\ \A i \in 1..Len(Leaf.Pelvis) : Leaf.Pelvis[i].Source = "PelvisCrossing"
             /\ \A i \in 1..Len(Leaf.Velocity) : Leaf.Velocity[i].Source = "VelocityCurve"
             /\ \A i \in 1..Len(Leaf.Saliency) : Leaf.Saliency[i].Source = "Saliency"
        /\ Method # "Composite" =>
             \A k \in 1..Len(Results) : Results[k].Source = Method

\* The composite detector has returned a result passed through from a
\* cluster of one beside a result fused from a larger cluster.
C16_Witness ==
    /\ Detected
    /\ Method = "Composite"
    /\ \E k \in 1..Len(Clusters) : Len(Clusters[k]) = 1 /\ Results[k] = Clusters[k][1]
    /\ \E k \in 1..Len(Clusters) : Len(Clusters[k]) >= 2 /\ Results[k].Source = "Composite"

\* C10: every result of every detector has a confidence in [0, 1], the
\* settings lying in their ranges.
C10_ConfidenceInUnitInterval ==
    Detected =>
        \A k \in 1..Len(Results) :
            RLe(Zero, Results[k].Confidence) /\ RLe(Results[k].Confidence, One)

\* The composite detector has fused a cluster whose largest member
\* confidence is 1 under a positive agreement bonus: the clamp holds the
\* fused confidence at 1.
C10_Witness ==
    /\ Detected
    /\ Method = "Composite"
    /\ RGt(Settings.DetectorAgreementBonus, Zero)
    /\ \E k \in 1..Len(Results) :
          /\ Results[k].Source = "Composite"
          /\ Results[k].Confidence = One
          /\ Len(Clusters[k]) >= 2
          /\ \E i \in 1..Len(Clusters[k]) : Clusters[k][i].Confidence = One

\* The results lie at sample times of strictly increasing index.
AtIncreasingSamples ==
    /\ \A k \in 1..Len(Results) :
         \E i \in 1..GetNumKeys(AnimSequence) :
             Results[k].Time = GetTimeAtFrame(AnimSequence, i - 1)
    /\ \A k \in 1..(Len(Results) - 1) : RLt(Results[k].Time, Results[k + 1].Time)

\* C27: the sample times increasing strictly, the list each leaf detector
\* returns is ordered by non-decreasing time.  The results of the velocity
\* and of the saliency detector lie at samples of strictly increasing
\* index, none repeated.  The list of the pelvis crossing detector stays
\* ordered when the result for the loop boundary is appended: that result
\* lies at the time of the last sample, which no crossing time exceeds.
C27_LeafResultsTimeOrdered ==
    (Detected /\ Method # "Composite") =>
        /\ IsTimeOrdered(Results)
        /\ Method \in { "VelocityCurve", "Saliency" } => AtIncreasingSamples
        /\ Method = "PelvisCrossing" =>
             \A k \in 1..Len(Results) :
                 RLe(Results[k].Time,
                     GetTimeAtFrame(AnimSequence, GetNumKeys(AnimSequence) - 1))

\* The foot has crossed the pelvis plane three times in four keys and
\* ends on the other side of it: three crossing times, then the result
\* for the loop boundary at the time of the last key.
C27_Witness ==
    /\ Detected
    /\ Method = "PelvisCrossing"
    /\ GetNumKeys(AnimSequence) = 4
    /\ Len(Results) = 4
    /\ Results[4].Time = GetTimeAtFrame(AnimSequence, 3)
    /\ RLt(Results[1].Time, Results[2].Time)
    /\ RLt(Results[3].Time, Results[4].Time)

(***************************************************************************)
(* SpecSetters: the threshold setters called any number of times on the    *)
(* detector CreateDetector made, then DetectContacts.                      *)
(***************************************************************************)
\* Velocity thresholds (cm/s) either side of the speed of a lifted step,
\* and saliency thresholds at the ends of their range.
SetterVelocityThresholds == { R(130), R(200) }
SetterSaliencyThresholds == { Zero, One }

InitSetters ==
    /\ Method \in Methods
    /\ Settings = DefaultSettings
    /\ AnimSequence \in Animations
    /\ Foot = [BoneName |-> "foot_l"]
    /\ Preset = [PelvisBoneName |-> "pelvis", PrimaryMoveAxis |-> ForwardVector]
    /\ VelocityDetector = NoOverride
    /\ SaliencyDetector = NoOverride
    /\ Composite = NewComposite(Settings.CompositeWeights)
    /\ Positions = <<>>
    /\ TimeIntervals = <<>>
    /\ Velocities = <<>>
    /\ Leaf = NoLeaf
    /\ Clusters = <<>>
    /\ Results = <<>>
    /\ Calls = 0
    /\ Modifier = NewModifier
    /\ Markers = <<>>
    /\ CrossingTime = Zero

NextSetters ==
    \/ \E Threshold \in SetterVelocityThresholds : SetVelocityThreshold(Threshold)
    \/ \E Threshold \in SetterSaliencyThresholds : SetSaliencyThreshold(Threshold)
    \/ CallPelvisDetectContacts
    \/ CallVelocityDetectContacts
    \/ CallSaliencyDetectContacts
    \/ CallCompositeDetectContacts

SpecSetters == InitSetters /\ [][NextSetters]_vars

(***************************************************************************)
(* Properties of SpecSetters.                                              *)
(***************************************************************************)
\* The settings a detector with the given override works under: the
\* override, when there is one, in place of the global threshold.
WithVelocityThreshold(Detector) ==
    IF Detector.bHasThresholdOverride
    THEN [Settings EXCEPT !.VelocityMinimumThreshold = Detector.ThresholdOverride]
    ELSE Settings
WithSaliencyThreshold(Detector) ==
    IF Detector.bHasThresholdOverride
    THEN [Settings EXCEPT !.SaliencyThreshold = Detector.ThresholdOverride]
    ELSE Settings

\* What a setter call may change of the detectors.
SetterFrame ==
    /\ \A x \in SetterVelocityThresholds :
         SetVelocityThreshold(x) =>
            /\ SaliencyDetector' = SaliencyDetector
            /\ Composite'.SaliencyDetector = Composite.SaliencyDetector
            /\ Method = "Composite" =>
                 Composite'.VelocityDetector =
                     [bHasThresholdOverride |-> TRUE, ThresholdOverride |-> x]
            /\ Method = "VelocityCurve" =>
                 VelocityDetector' = [bHasThresholdOverride |-> TRUE, ThresholdOverride |-> x]
            /\ Method \in { "PelvisCrossing", "Saliency" } => UNCHANGED vars
    /\ \A y \in SetterSaliencyThresholds :
         SetSaliencyThreshold(y) =>
            /\ VelocityDetector' = VelocityDetector
            /\ Composite'.VelocityDetector = Composite.VelocityDetector
            /\ Method = "Composite" =>
                 Composite'.SaliencyDetector =
                     [bHasThresholdOverride |-> TRUE, ThresholdOverride |-> y]
            /\ Method = "Saliency" =>
                 SaliencyDetector' = [bHasThresholdOverride |-> TRUE, ThresholdOverride |-> y]
            /\ Method \in { "PelvisCrossing", "VelocityCurve" } => UNCHANGED vars
    /\ Composite'.PelvisCrossingWeight = Composite.PelvisCrossingWeight
    /\ Composite'.VelocityCurveWeight = Composite.VelocityCurveWeight
    /\ Composite'.SaliencyWeight = Composite.SaliencyWeight

\* What the detectors return after the setter calls: each inner detector
\* of the composite works as a detector without override would under
\* settings holding the threshold last set on it, and under the global
\* threshold when none was set; the pelvis detector works as it would
\* without any setter call.
SetterEffect ==
    Detected =>
        /\ Method = "Composite" =>
             /\ Leaf.Velocity = VelocityDetectContacts(NoOverride, AnimSequence, Foot, Preset,
                                     WithVelocityThreshold(Composite.VelocityDetector))
             /\ Leaf.Saliency = SaliencyDetectContacts(NoOverride, AnimSequence, Foot, Preset,
                                     WithSaliencyThreshold(Composite.SaliencyDetector))
             /\ Leaf.Pelvis = PelvisDetectContacts(AnimSequence, Foot, Preset, Settings)
        /\ Method = "PelvisCrossing" =>
             /\ Results = PelvisDetectContacts(AnimSequence, Foot, Preset, Settings)
             /\ VelocityDetector = NoOverride
             /\ SaliencyDetector = NoOverride
             /\ Composite = NewComposite(Settings.CompositeWeights)

\* C19: SetVelocityThreshold(x) on the composite detector changes its
\* inner velocity detector alone, which from then on works with x in
\* place of VelocityMinimumThreshold, and SetSaliencyThreshold(y) changes
\* its inner saliency detector alone, which works with y in place of
\* SaliencyThreshold; the inner pelvis detector is not affected.  After
\* any sequence of setter calls each detector works with the value last
\* set on it.  On a pelvis crossing detector either setter changes
\* nothing, and the detector returns what it returns without the call.
C19_SettersReachOneDetector == [][SetterFrame]_vars /\ []SetterEffect

\* The composite detector has run after both thresholds were set: its
\* velocity detector has returned, under the override, other results than
\* under the global threshold, and so has its saliency detector.
C19_Witness ==
    /\ Detected
    /\ Method = "Composite"
    /\ Composite.VelocityDetector.bHasThresholdOverride
    /\ Composite.SaliencyDetector.bHasThresholdOverride
    /\ Composite.VelocityDetector.ThresholdOverride # Composite.SaliencyDetector.ThresholdOverride
    /\ Leaf.Velocity # VelocityDetectContacts(NoOverride, AnimSequence, Foot, Preset, Settings)
    /\ Leaf.Saliency # SaliencyDetectContacts(NoOverride, AnimSequence, Foot, Preset, Settings)

(***************************************************************************)
(* SpecMarkers: ProcessAnimation for one foot of the preset.  The curves   *)
(* ProcessAnimation also generates are no part of the state.               *)
(***************************************************************************)
MaxMarkerKeys == 5

\* The animations: 30 keys a second, the pelvis at the origin, the foot
\* swinging.
MarkerAnimations ==
    { [FrameRate |-> 30, Foot |-> t, Pelvis |-> [k \in 1..Len(t) |-> <<0, 0, 0>>]] :
        t \in SeqsOf(SwingPool, 0, MaxMarkerKeys) }

\* The settings: the smallest and the default marker interval.
MarkerSettings ==
    { [DefaultSettings EXCEPT !.MinimumMarkerInterval = i] : i \in { <<1, 20>>, <<1, 10>> } }

\* The options of the modifier: each option left to the settings or
\* overridden.
MarkerModifiers ==
    { [NewModifier EXCEPT !.bOverrideDetectionMethod = m[1],
                          !.DetectionMethodOverride = m[2],
                          !.bOverrideMinimumConfidence = c[1],
                          !.MinimumConfidenceOverride = c[2],
                          !.bOverrideMaxMarkersPerFoot = n[1],
                          !.MaxMarkersPerFootOverride = n[2],
                          !.bOverrideGuaranteeMinimumOne = g[1],
                          !.bGuaranteeMinimumOneOverride = g[2]] :
        m \in { <<FALSE, "Composite">>, <<TRUE, "PelvisCrossing">>,
                <<TRUE, "VelocityCurve">>, <<TRUE, "Saliency">> },
        c \in { <<FALSE, <<3, 10>> >>, <<TRUE, <<3, 5>> >> },
        n \in { <<FALSE, 2>>, <<TRUE, 0>>, <<TRUE, 1>> },
        g \in { <<FALSE, TRUE>>, <<TRUE, FALSE>> } }

InitMarkers ==
    /\ Settings \in MarkerSettings
    /\ Modifier \in MarkerModifiers
    /\ AnimSequence \in MarkerAnimations
    /\ Foot \in { [BoneName |-> n] : n \in { "foot_l", NAME_None } }
    /\ Preset = [PelvisBoneName |-> "pelvis", PrimaryMoveAxis |-> ForwardVector]
    /\ Method = GetEffectiveDetectionMethod(Modifier, Settings)
    /\ VelocityDetector = NoOverride
    /\ SaliencyDetector = NoOverride
    /\ Composite = NewComposite(Settings.CompositeWeights)
    /\ Positions = <<>>
    /\ TimeIntervals = <<>>
    /\ Velocities = <<>>
    /\ Leaf = NoLeaf
    /\ Clusters = <<>>
    /\ Results = <<>>
    /\ Calls = 0
    /\ Markers = <<>>
    /\ CrossingTime = Zero

\* The body of ProcessAnimation's loop for the foot: a foot without bone
\* name is skipped; otherwise the contacts are detected, selected and
\* filtered, and the sync markers added.
ProcessAnimation ==
    /\ Calls = 0
    /\ IF Foot.BoneName = NAME_None
       THEN UNCHANGED <<Results, Markers>>
       ELSE \E Detection \in DetectFootContacts(Modifier, AnimSequence, Foot, Preset, Settings) :
              /\ Results' = Detection
              /\ \E FilteredTimes \in FilteredTimesOf(Modifier, Detection, Settings) :
                   Markers' = Markers \o FilteredTimes
    /\ Calls' = 1
    /\ UNCHANGED <<Settings, AnimSequence, Foot, Preset, Method, VelocityDetector,
                   SaliencyDetector, Composite, Positions, TimeIntervals, Velocities,
                   Leaf, Clusters, Modifier, CrossingTime>>

NextMarkers == ProcessAnimation

SpecMarkers == InitMarkers /\ [][NextMarkers]_vars

(***************************************************************************)
(* Properties of SpecMarkers.                                              *)
(***************************************************************************)
\* ProcessAnimation has processed the foot.
Processed == Calls = 1

\* The contact results among those DetectFootContacts returned.
DetectedContacts == { k \in 1..Len(Results) : Results[k].bIsContact }

\* No contact result has a confidence above the effective minimum.
NoneConfident ==
    \A k \in DetectedContacts :
        RLe(Results[k].Confidence, GetEffectiveMinimumConfidence(Modifier, Settings))

\* C13 as stated: with the effective guarantee option on, every foot that
\* has a bone name gets at least one sync marker.
C13_AlwaysOneMarker ==
    (Processed /\ GetEffectiveGuaranteeMinimumOne(Modifier, Settings)
        /\ Foot.BoneName # NAME_None) => Len(Markers) >= 1

\* C13, amended: with the effective guarantee option on, a foot that has
\* a bone name gets at least one sync marker whenever the detector
\* returned at least one contact result, even if no contact result has a
\* confidence above the minimum: the marker is then at the time of a
\* contact result of the highest confidence.  When the detector returned
\* no contact result (nothing at all, or lift-offs only), the foot gets no
\* marker, whatever the option.
C13_OneMarkerWhenContactDetected ==
    (Processed /\ Foot.BoneName # NAME_None) =>
        /\ (GetEffectiveGuaranteeMinimumOne(Modifier, Settings) /\ DetectedContacts # {})
              => Len(Markers) >= 1
        /\ (GetEffectiveGuaranteeMinimumOne(Modifier, Settings) /\ DetectedContacts # {}
               /\ NoneConfident) =>
              /\ Len(Markers) = 1
              /\ \E k \in DetectedContacts :
                   /\ Markers[1] = Results[k].Time
                   /\ \A j \in DetectedContacts :
                        RGe(Results[k].Confidence, Results[j].Confidence)
        /\ DetectedContacts = {} => Markers = <<>>

\* The guarantee has given a marker to a foot with two contact results,
\* neither of confidence above the minimum.
C13_Witness ==
    /\ Processed
    /\ Foot.BoneName # NAME_None
    /\ GetEffectiveGuaranteeMinimumOne(Modifier, Settings)
    /\ Cardinality(DetectedContacts) >= 2
    /\ NoneConfident
    /\ Len(Markers) = 1

\* C14: the times of the markers written for the foot are strictly
\* increasing, and any two consecutive ones lie more than
\* MinimumMarkerInterval apart, whatever the detector returned and
\* whatever the selection of the best, the confidence filter and the
\* guarantee kept.
C14_MarkersSpaced ==
    Processed =>
        \A i \in 1..(Len(Markers) - 1) :
            /\ RLt(Markers[i], Markers[i + 1])
            /\ RGt(RSub(Markers[i + 1], Markers[i]), Settings.MinimumMarkerInterval)

\* Two markers have been written, a contact result between them or next
\* to them having been left out for lying too close.
C14_Witness ==
    /\ Processed
    /\ Len(Markers) >= 2
    /\ \E k \in DetectedContacts :
         /\ RGt(Results[k].Confidence, GetEffectiveMinimumConfidence(Modifier, Settings))
         /\ \A i \in 1..Len(Markers) : Markers[i] # Results[k].Time
    /\ GetEffectiveMaxMarkersPerFoot(Modifier, Settings) = 0

(***************************************************************************)
(* SpecInterpolate: InterpolateCrossingTime on two times and two           *)
(* positions.  TimeIntervals holds Time1 and Time2, Positions holds Pos1   *)
(* and Pos2.                                                               *)
(***************************************************************************)
\* Times (s): key times at 30 keys a second, and a whole second.
InterpolateTimes == { Zero, <<1, 30>>, <<1, 15>>, One }

InitInterpolate ==
    /\ Settings = DefaultSettings
    /\ AnimSequence = NoAnim
    /\ Foot = [BoneName |-> "foot_l"]
    /\ Preset = [PelvisBoneName |-> "pelvis", PrimaryMoveAxis |-> ForwardVector]
    /\ Method = "PelvisCrossing"
    /\ VelocityDetector = NoOverride
    /\ SaliencyDetector = NoOverride
    /\ Composite = NewComposite(Settings.CompositeWeights)
    /\ TimeIntervals \in { t \in [1..2 -> InterpolateTimes] : RLe(t[1], t[2]) }
    /\ Positions \in [1..2 -> ProjectedPool]
    /\ Velocities = <<>>
    /\ Leaf = NoLeaf
    /\ Clusters = <<>>
    /\ Results = <<>>
    /\ Calls = 0
    /\ Modifier = NewModifier
    /\ Markers = <<>>
    /\ CrossingTime = Zero

CallInterpolateCrossingTime ==
    /\ Calls = 0
    /\ CrossingTime' = InterpolateCrossingTime(TimeIntervals[1], Positions[1],
                                               TimeIntervals[2], Positions[2])
    /\ Calls' = 1
    /\ UNCHANGED <<Settings, AnimSequence, Foot, Preset, Method, VelocityDetector,
                   SaliencyDetector, Composite, Positions, TimeIntervals, Velocities,
                   Leaf, Clusters, Results, Modifier, Markers>>

NextInterpolate == CallInterpolateCrossingTime

SpecInterpolate == InitInterpolate /\ [][NextInterpolate]_vars

(***************************************************************************)
(* Properties of SpecInterpolate.                                          *)
(***************************************************************************)
\* Time1 + (0 - Pos1) * (Time2 - Time1) / (Pos2 - Pos1), for Pos1 # Pos2.
LinearCrossingTime ==
    RAdd(TimeIntervals[1],
         RDiv(RMul(RSub(Zero, Positions[1]), RSub(TimeIntervals[2], TimeIntervals[1])),
              RSub(Positions[2], Positions[1])))

\* The two positions are closer than the small epsilon.
PositionsClose == RLt(RAbs(RSub(Positions[2], Positions[1])), KINDA_SMALL_NUMBER)

\* C21: called with Time1 <= Time2, InterpolateCrossingTime returns a time
\* within [Time1, Time2]: the midpoint (Time1 + Time2) / 2 when the two
\* positions are closer than the small epsilon (equal positions included,
\* for which the quotient does not exist), and otherwise
\* Time1 + (0 - Pos1) * (Time2 - Time1) / (Pos2 - Pos1) when that lies
\* within [Time1, Time2], Time1 when it lies before, Time2 when after.
C21_CrossingTimeWithinPair ==
    Calls = 1 =>
        /\ RLe(TimeIntervals[1], CrossingTime)
        /\ RLe(CrossingTime, TimeIntervals[2])
        /\ PositionsClose =>
              RMul(CrossingTime, R(2)) = RAdd(TimeIntervals[1], TimeIntervals[2])
        /\ ~PositionsClose =>
              /\ RLt(LinearCrossingTime, TimeIntervals[1]) => CrossingTime = TimeIntervals[1]
              /\ RGt(LinearCrossingTime, TimeIntervals[2]) => CrossingTime = TimeIntervals[2]
              /\ (RLe(TimeIntervals[1], LinearCrossingTime)
                     /\ RLe(LinearCrossingTime, TimeIntervals[2]))
                    => CrossingTime = LinearCrossingTime

\* Both positions lie on the same side of zero and apart, the line through
\* them reaches zero only after Time2, and Time2 has been returned.
C21_Witness ==
    /\ Calls = 1
    /\ RLt(TimeIntervals[1], TimeIntervals[2])
    /\ ~PositionsClose
    /\ RLt(Positions[1], Zero) /\ RLt(Positions[2], Zero)
    /\ RGt(LinearCrossingTime, TimeIntervals[2])
    /\ CrossingTime = TimeIntervals[2]

(***************************************************************************)
(* SpecAxis: the pelvis crossing detector on feet moving forward and       *)
(* sideways, with presets of different primary movement axes.              *)
(***************************************************************************)
MaxAxisKeys == 3

ZeroVector == <<0, 0, 0>>

\* Foot locations either side of the pelvis forward and sideways.
AxisPool == { <<x, y, 0>> : x \in { -4, 4 }, y \in { -4, 1, 9 } }

AxisAnimations ==
    { [FrameRate |-> 30, Foot |-> t, Pelvis |-> [k \in 1..Len(t) |-> ZeroVector]] :
        t \in SeqsOf(AxisPool, 2, MaxAxisKeys) }

\* The presets: the primary movement axis forward (the default), to the
\* right, or the zero vector.
AxisPresets ==
    { [PelvisBoneName |-> "pelvis", PrimaryMoveAxis |-> a] :
        a \in { ForwardVector, RightVector, ZeroVector } }

InitAxis ==
    /\ Settings = DefaultSettings
    /\ AnimSequence \in AxisAnimations
    /\ Foot = [BoneName |-> "foot_l"]
    /\ Preset \in AxisPresets
    /\ Method = "PelvisCrossing"
    /\ VelocityDetector = NoOverride
    /\ SaliencyDetector = NoOverride
    /\ Composite = NewComposite(Settings.CompositeWeights)
    /\ Positions = <<>>
    /\ TimeIntervals = <<>>
    /\ Velocities = <<>>
    /\ Leaf = NoLeaf
    /\ Clusters = <<>>
    /\ Results = <<>>
    /\ Calls = 0
    /\ Modifier = NewModifier
    /\ Markers = <<>>
    /\ CrossingTime = Zero

NextAxis == CallPelvisDetectContacts

SpecAxis == InitAxis /\ [][NextAxis]_vars

(***************************************************************************)
(* Properties of SpecAxis.                                                 *)
(***************************************************************************)
\* The range of coordinate c of the foot's positions relative to the pelvis.
RangeOf(c) ==
    LET Coordinates == { AnimSequence.Foot[k][c] - AnimSequence.Pelvis[k][c] :
                           k \in 1..Len(AnimSequence.Foot) }
    IN  CHOOSE r \in 0..100 :
            \E lo \in Coordinates, hi \in Coordinates :
                /\ r = hi - lo
                /\ \A x \in Coordinates : lo <= x /\ x <= hi

\* The results of the detector for positions projected onto Axis.
CrossingsAlong(Axis) ==
    FindZeroCrossings(
        [k \in 1..Len(AnimSequence.Foot) |->
            R(DotProduct(VSub(AnimSequence.Foot[k], AnimSequence.Pelvis[k]), Axis))],
        TimeIntervalsOf(AnimSequence), Settings)

\* The X or the Y axis, whichever coordinate has the larger range; X when
\* the ranges are equal.
LargerRangeAxis == IF RangeOf(2) > RangeOf(1) THEN RightVector ELSE ForwardVector

MaxSalientKeys == 5

\* Foot locations (cm) at three heights: on the ground behind the pelvis,
\* and under the pelvis above and below that level.
SalientPool == { <<-4, 0, 0>>, <<0, 0, 3>>, <<0, 0, -3>> }

SalientAnimations ==
    { [FrameRate |-> 30, Foot |-> t, Pelvis |-> [k \in 1..Len(t) |-> ZeroVector]] :
        t \in SeqsOf(SalientPool, 0, MaxSalientKeys) }

\* The settings: the smallest window, windows of one and a half and of two
\* key intervals, and the default window; the threshold at its ends and
\* its default.
SalientSettings ==
    { [DefaultSettings EXCEPT !.SaliencyWindowSize = w, !.SaliencyThreshold = t] :
        w \in { <<1, 100>>, <<1, 20>>, <<1, 15>>, <<1, 10>> },
        t \in { Zero, <<1, 2>>, One } }

InitSalient ==
    /\ Settings \in SalientSettings
    /\ AnimSequence \in SalientAnimations
    /\ Foot = [BoneName |-> "foot_l"]
    /\ Preset = [PelvisBoneName |-> "pelvis", PrimaryMoveAxis |-> ForwardVector]
    /\ Method = "Saliency"
    /\ VelocityDetector = NoOverride
    /\ SaliencyDetector = NoOverride
    /\ Composite = NewComposite(Settings.CompositeWeights)
    /\ Positions = <<>>
    /\ TimeIntervals = <<>>
    /\ Velocities = <<>>
    /\ Leaf = NoLeaf
    /\ Clusters = <<>>
    /\ Results = <<>>
    /\ Calls = 0
    /\ Modifier = NewModifier
    /\ Markers = <<>>
    /\ CrossingTime = Zero

NextSalient == CallSaliencyDetectContacts

SpecSalient == InitSalient /\ [][NextSalient]_vars

(***************************************************************************)
(* Properties of SpecSalient.                                              *)
(***************************************************************************)
\* The saliency detector has run on four keys or more.
SalientFound == Detected /\ Method = "Saliency" /\ GetNumKeys(AnimSequence) >= 4

SampleTimes == TimeIntervalsOf(AnimSequence)

SampleCurvatures == CalculateCurvature(FootWorldPositions(AnimSequence), SampleTimes)

\* The interior samples that are curvature peaks or have a high curvature
\* derivative, in the code's scan.
SalientCandidates ==
    LET Derivs == CurvatureDerivativesOf(SampleCurvatures, SampleTimes)
        AdaptiveThreshold == AdaptiveThresholdOf(Derivs, SaliencyThresholdOf(SaliencyDetector, Settings))
    IN  { i \in 2..(GetNumKeys(AnimSequence) - 1) :
            IsSalientCandidate(SampleCurvatures, Derivs, AdaptiveThreshold, i) }

\* The samples at whose times there is a result.
AcceptedSamples ==
    { i \in 1..GetNumKeys(AnimSequence) :
        \E k \in 1..Len(Results) : Results[k].Time = SampleTimes[i] }

\* C25: any two results of one saliency detection are at least WindowSize
\* apart in time.  The results are those of the accepted candidates, one
\* each: in ascending order of time, a candidate is rejected exactly when
\* an accepted earlier sample lies less than WindowSize from it (one lying
\* exactly WindowSize away does not reject it, nor does a rejected
\* candidate however close).  So the earliest candidate is always
\* accepted, and an earlier candidate wins over a later one of greater
\* curvature.
C25_SalientSpacing ==
    SalientFound =>
        LET Candidates == SalientCandidates
            Accepted == AcceptedSamples
            Times == SampleTimes
        IN  /\ \A k \in 1..Len(Results), l \in 1..Len(Results) :
                 k < l => RGe(RAbs(RSub(Results[l].Time, Results[k].Time)),
                              Settings.SaliencyWindowSize)
            /\ Len(Results) = Cardinality(Accepted)
            /\ Accepted \subseteq Candidates
            /\ \A i \in Candidates :
                 i \in Accepted <=>
                     ~ \E j \in Accepted :
                           /\ j < i
                           /\ RLt(RSub(Times[i], Times[j]), Settings.SaliencyWindowSize)
            /\ \A i \in Candidates :
                 (\A j \in Candidates : i <= j) => i \in Accepted

\* Three candidates one key interval apart under a window of one and a
\* half: the first is accepted, the second rejected although its
\* curvature is greater, and the third accepted, close as it is to the
\* rejected second.
C25_Witness ==
    /\ SalientFound
    /\ Settings.SaliencyWindowSize = <<1, 20>>
    /\ \E i \in SalientCandidates :
         /\ i + 1 \in SalientCandidates /\ i + 2 \in SalientCandidates
         /\ i \in AcceptedSamples
         /\ i + 1 \notin AcceptedSamples
         /\ i + 2 \in AcceptedSamples
         /\ RGt(SampleCurvatures[i + 1], SampleCurvatures[i])

\* The sample at whose time result k lies.
SampleOf(k) ==
    CHOOSE i \in 1..GetNumKeys(AnimSequence) : SampleTimes[i] = Results[k].Time

\* The height of the foot at sample i.
HeightAt(i) == FootWorldPositions(AnimSequence)[i][3]

\* The sum of the heights at the samples of S.
RECURSIVE HeightSum(_)
HeightSum(S) ==
    IF S = {} THEN 0
    ELSE LET i == CHOOSE x \in S : TRUE IN HeightAt(i) + HeightSum(S \ {i})

\* The up to two samples before sample i, and the up to two after it.
SamplesBefore(i) == { j \in 1..GetNumKeys(AnimSequence) : i - 2 <= j /\ j < i }
SamplesAfter(i) == { j \in 1..GetNumKeys(AnimSequence) : i < j /\ j <= i + 2 }

\* The mean height before sample i is at most the height at i, and the
\* mean height after it is greater.
RisesFrom(i) ==
    /\ HeightSum(SamplesBefore(i)) <= Cardinality(SamplesBefore(i)) * HeightAt(i)
    /\ HeightSum(SamplesAfter(i)) > Cardinality(SamplesAfter(i)) * HeightAt(i)

OrderConfidences(M) ==
    CASE M = "PelvisCrossing" -> { <<3, 5>> }
      [] M = "VelocityCurve" -> { <<4, 5>> }
      [] M = "Saliency" -> { Zero, <<3, 10>> }

OrderListTable ==
    [M \in LeafMethods |->
        [n \in 0..MaxLeafResults |->
            { l \in LeafListTable[M][n] :
                \A i \in 1..Len(l) : l[i].Confidence \in OrderConfidences(M) }]]

\* The lists of the three detectors, MaxLeafResults results in all at most.
IsOrderLeaf(l) ==
    \E p \in OrderListTable["PelvisCrossing"][MaxLeafResults] :
      \E v \in OrderListTable["VelocityCurve"][MaxLeafResults - Len(p)] :
        \E s \in OrderListTable["Saliency"][MaxLeafResults - Len(p) - Len(v)] :
          l = [Pelvis |-> p, Velocity |-> v, Saliency |-> s]

InitOrder ==
    /\ Settings \in FusionSettings
    /\ AnimSequence = NoAnim
    /\ Foot = [BoneName |-> "foot_l"]
    /\ Preset = [PelvisBoneName |-> "pelvis", PrimaryMoveAxis |-> ForwardVector]
    /\ Method = "Composite"
    /\ VelocityDetector = NoOverride
    /\ SaliencyDetector = NoOverride
    /\ Composite = NewComposite(Settings.CompositeWeights)
    /\ Positions = <<>>
    /\ TimeIntervals = <<>>
    /\ Velocities = <<>>
    /\ IsOrderLeaf(Leaf)
    /\ Clusters = <<>>
    /\ Results = <<>>
    /\ Calls = 0
    /\ Modifier = NewModifier
    /\ Markers = <<>>
    /\ CrossingTime = Zero

NextOrder == CallMergeResults

SpecOrder == InitOrder /\ [][NextOrder]_vars

(***************************************************************************)
(* Properties of SpecOrder.                                                *)
(***************************************************************************)
\* The lists the three detectors' lists give when appended in any of the
\* six orders.
ConcatenationOrders ==
    LET Lists == <<Leaf.Pelvis, Leaf.Velocity, Leaf.Saliency>>
    IN  { Lists[p[1]] \o Lists[p[2]] \o Lists[p[3]] :
            p \in { q \in [1..3 -> 1..3] : { q[1], q[2], q[3] } = 1..3 } }

\* Every list the sort can leave, whatever the order of concatenation.
SortedLists == UNION { SortByTime(AllResults) : AllResults \in ConcatenationOrders }

\* C30: with exact arithmetic the output of MergeResults is the same for
\* every order in which the three lists are concatenated and every order
\* in which the sort leaves results of equal time: results of equal time
\* are always in one cluster, the clusters hold the same members, and the
\* fused time, confidence, vote and source of every cluster are the same.
C30_OrderIndependent ==
    Merged =>
        /\ \A k, l \in 1..Len(Clusters) :
             k # l => \A i \in 1..Len(Clusters[k]), j \in 1..Len(Clusters[l]) :
                        Clusters[k][i].Time # Clusters[l][j].Time
        /\ \A Sorted \in SortedLists :
             LET Others == ClusterResultsByTime(Sorted, Settings.ResultMergeThreshold)
                 Fused == FinalResultsOf(Composite, Sorted, Settings)
             IN  /\ Len(Others) = Len(Clusters)
                 /\ \A k \in 1..Len(Clusters) : SameMembers(Others[k], Clusters[k])
                 /\ Fused = Results

\* A cluster of three from three detectors with two members of equal time,
\* unequal confidence and opposite votes, at the same time a member of
\* another time, which the sort and the concatenation can order in more
\* than one way.
C30_Witness ==
    /\ Merged
    /\ Cardinality(SortedLists) >= 2
    /\ \E k \in 1..Len(Clusters) :
         /\ Len(Clusters[k]) = 3
         /\ \E i, j \in 1..3 :
              /\ Clusters[k][i].Time = Clusters[k][j].Time
              /\ Clusters[k][i].Source # Clusters[k][j].Source
              /\ Clusters[k][i].Confidence # Clusters[k][j].Confidence
              /\ Clusters[k][i].bIsContact # Clusters[k][j].bIsContact
         /\ Clusters[k][1].Time # Clusters[k][3].Time
         /\ Results[k].Source = "Composite"

=============================================================================
